---- MODULE Spec2Model ----
(***************************************************************************)
(* LaunchGen: the three-stage launch-plan pipeline (server/services/       *)
(* openai.ts), the two generate routes (server/routes.ts) and the plan     *)
(* store (server/storage.ts, DatabaseStorage), as a state machine.         *)
(*                                                                         *)
(* A request handler is an async function: between two awaits it runs      *)
(* without interruption, so every action below is the code from one await  *)
(* to the next.  The answers of the generative service, of pdf-parse and   *)
(* of the database are inputs, drawn from the small sets defined below.    *)
(***************************************************************************)
EXTENDS Integers, Sequences, FiniteSets, TLC

\* Number of generate requests a run of the model handles (concurrently).
MaxReqs == 2

Reqs == 1..MaxReqs

\* Number of plans the table comes to hold where plans are edited; where
\* share tokens alone are at stake it holds one more.
MaxPlans == 1

PlanIds == 1..MaxPlans
SharedIds == 1..(MaxPlans + 1)

\* The last reading of the clock, in milliseconds since the start.
MaxClock == 1

-----------------------------------------------------------------------------
(* JSON values as JavaScript sees them: a tag and, except for undefined    *)
(* and null, a payload.  An object's payload is a function from its keys.  *)

Undefined == [t |-> "undefined"]
Null == [t |-> "null"]
Str(s) == [t |-> "string", v |-> s]
Num(n) == [t |-> "number", v |-> n]
Arr(s) == [t |-> "array", v |-> s]
Obj(f) == [t |-> "object", v |-> f]

IsNullish(j) == j.t \in {"undefined", "null"}
IsArray(j) == j.t = "array"
IsString(j) == j.t = "string"

\* o.k : undefined when the key is absent or o is a primitive
\* (the caller checks IsNullish(o) first, where JavaScript throws).
Get(o, k) == IF o.t = "object" /\ k \in DOMAIN o.v THEN o.v[k] ELSE Undefined

\* JavaScript truthiness of a JSON value.
Truthy(j) ==
  CASE j.t = "undefined" -> FALSE
    [] j.t = "null" -> FALSE
    [] j.t = "string" -> j.v # ""
    [] j.t = "number" -> j.v # 0
    [] OTHER -> TRUE

\* a || b
Or(a, b) == IF Truthy(a) THEN a ELSE b

\* Array.prototype.join on a sequence of JSON values.
RECURSIVE Join(_, _)
Join(s, sep) ==
  LET Text(j) ==
        CASE j.t = "string" -> j.v
          [] j.t = "number" -> ToString(j.v)
          [] j.t = "array" -> Join(j.v, ",")
          [] j.t = "object" -> "[object Object]"
          [] OTHER -> ""
  IN IF Len(s) = 0 THEN ""
     ELSE IF Len(s) = 1 THEN Text(s[1])
     ELSE Text(s[1]) \o sep \o Join(Tail(s), sep)

\* JSON.parse(JSON.stringify(j)): what res.json sends and what a jsonb column
\* holds.  A key whose value is undefined is dropped; an undefined array
\* element becomes null.
RECURSIVE JsonRoundTrip(_)
JsonRoundTrip(j) ==
  CASE j.t = "object" ->
         Obj([k \in {x \in DOMAIN j.v : j.v[x].t # "undefined"} |-> JsonRoundTrip(j.v[k])])
    [] j.t = "array" ->
         Arr([i \in 1..Len(j.v) |->
                IF j.v[i].t = "undefined" THEN Null ELSE JsonRoundTrip(j.v[i])])
    [] OTHER -> j

-----------------------------------------------------------------------------
(* Results of a function that may throw.                                   *)

Threw(m) == [threw |-> TRUE, name |-> "Error", message |-> m]
Returned(v) == [threw |-> FALSE, value |-> v]

-----------------------------------------------------------------------------
(* shared/schema.ts: businessInfoSchema.  A request body is a record that  *)
(* holds the fields the client sent, each a string.                        *)

IdeaMinLength == 10
LabelMinLength == 2

DefaultTimeCommitment == "10 hours/week"
DefaultBudget == "$0 (Zero-budget)"

\* The issues zod reports for one required string field, in order.
FieldIssues(body, k, min, msg) ==
  IF k \notin DOMAIN body THEN <<Str("Required")>>
  ELSE IF Len(body[k]) < min THEN <<Str(msg)>>
  ELSE <<>>

\* Seeded fault: the schema does not bound the length of businessIdea.
SchemaIssuesIdeaUnbounded(body) ==
  FieldIssues(body, "businessIdea", 0, "Business idea must be at least 10 characters")
  \o FieldIssues(body, "industry", LabelMinLength, "Industry is required")
  \o FieldIssues(body, "targetMarket", LabelMinLength, "Target market is required")

SchemaIssues(body) ==
  FieldIssues(body, "businessIdea", IdeaMinLength,
              "Business idea must be at least 10 characters")
  \o FieldIssues(body, "industry", LabelMinLength, "Industry is required")
  \o FieldIssues(body, "targetMarket", LabelMinLength, "Target market is required")

\* businessInfoSchema.parse(body): the validated data, defaults applied, or a
\* ZodError whose message lists the issues.
businessInfoSchema(body) ==
  IF SchemaIssues(body) # <<>>
  THEN [threw |-> TRUE, name |-> "ZodError", message |-> Join(SchemaIssues(body), "; ")]
  ELSE Returned(
         [k \in {"businessIdea", "industry", "targetMarket", "timeCommitment", "budget"}
                \cup (DOMAIN body \cap {"additionalDetails"}) |->
            CASE k = "timeCommitment" ->
                   IF k \in DOMAIN body THEN body[k] ELSE DefaultTimeCommitment
              [] k = "budget" -> IF k \in DOMAIN body THEN body[k] ELSE DefaultBudget
              [] OTHER -> body[k]])

\* JSON.stringify of a BusinessInfo (its values are strings free of quotes).
Stringify(info) ==
  LET Pair(k) == "\"" \o k \o "\":\"" \o info[k] \o "\"" IN
  "{" \o Pair("businessIdea") \o "," \o Pair("industry") \o "," \o Pair("targetMarket")
      \o "," \o Pair("timeCommitment") \o "," \o Pair("budget")
      \o (IF "additionalDetails" \in DOMAIN info THEN "," \o Pair("additionalDetails") ELSE "")
      \o "}"

-----------------------------------------------------------------------------
(* Answers of the generative service to one chat.completions.create call:  *)
(* the call rejects, or it resolves with a message content that is absent  *)
(* (null or ""), or a text.  A text is kept as what JSON.parse makes of it: *)
(* a SyntaxError, or the value parsed.                                     *)

ApiError(m) == [kind |-> "throw", message |-> m]
NoContent == [kind |-> "content", empty |-> TRUE]
NotJson == [kind |-> "content", empty |-> FALSE, json |-> FALSE]
Json(v) == [kind |-> "content", empty |-> FALSE, json |-> TRUE, value |-> v]

SyntaxErrorMessage == "Unexpected token S in JSON at position 0"

\* The try block common to the three stages up to JSON.parse(content).
ParsedContent(outcome, noContentMessage) ==
  IF outcome.kind = "throw" THEN Threw(outcome.message)
  ELSE IF outcome.empty THEN Threw(noContentMessage)
  ELSE IF ~outcome.json THEN Threw(SyntaxErrorMessage)
  ELSE Returned(outcome.value)

\* catch (error) { throw new Error(`${prefix}: ${error.message}`) }
Rethrow(prefix, result) ==
  IF result.threw THEN Threw(prefix \o ": " \o result.message) ELSE result

\* Stage 1
generateInitialPlan(outcome) ==
  Rethrow("Failed to generate initial plan",
          ParsedContent(outcome, "No content received from GPT-4o"))

\* Stage 2
proofreadAndGeneratePosts(outcome) ==
  Rethrow("Failed to proofread and generate posts",
          ParsedContent(outcome, "No content received from GPT-4.5"))

-----------------------------------------------------------------------------
(* Stage 3: the transform of the service's plan to the response schema.    *)

CannotRead(j, k) == "Cannot read properties of " \o j.t \o " (reading '" \o k \o "')"

\* The first non-empty message of a sequence of messages, "" when none.
RECURSIVE FirstError(_)
FirstError(s) ==
  IF Len(s) = 0 THEN "" ELSE IF s[1] # "" THEN s[1] ELSE FirstError(Tail(s))

\* x.map(...) on a value that is no array.
MapError(j, what) ==
  IF IsNullish(j) THEN CannotRead(j, "map") ELSE what \o ".map is not a function"

TaskError(task) == IF IsNullish(task) THEN CannotRead(task, "day") ELSE ""

WeekError(week) ==
  IF IsNullish(week) THEN CannotRead(week, "title")
  ELSE LET tasks == Get(week, "dailyTasks") IN
       IF ~IsArray(tasks) THEN MapError(tasks, "week.dailyTasks")
       ELSE FirstError([i \in 1..Len(tasks.v) |-> TaskError(tasks.v[i])])

\* The TypeError the transform throws on finalPlan, "" when it throws none.
TransformError(finalPlan) ==
  IF IsNullish(finalPlan) THEN CannotRead(finalPlan, "overview")
  ELSE LET weeks == Get(finalPlan, "weeklyPlan") IN
       IF ~IsArray(weeks) THEN MapError(weeks, "finalPlan.weeklyPlan")
       ELSE FirstError([i \in 1..Len(weeks.v) |-> WeekError(weeks.v[i])])

\* Seeded fault: the task is renamed without the fallback to the fields of
\* the response schema.
TransformTaskRenamesOnly(task) ==
  Obj([day |-> Get(task, "day"),
       description |-> Get(task, "task"),
       timeEstimate |-> Get(task, "time"),
       tool |-> IF IsArray(Get(task, "tools"))
                THEN Str(Join(Get(task, "tools").v, ", "))
                ELSE Get(task, "tool"),
       kpi |-> Get(task, "kpi"),
       postDraft |-> Get(task, "postDraft")])

\* Seeded fault: the names of the response schema are read first.
TransformTaskPrefersSchemaNames(task) ==
  Obj([day |-> Get(task, "day"),
       description |-> Or(Get(task, "description"), Get(task, "task")),
       timeEstimate |-> Or(Get(task, "timeEstimate"), Get(task, "time")),
       tool |-> IF IsString(Get(task, "tool")) \/ ~IsArray(Get(task, "tools"))
                THEN Get(task, "tool")
                ELSE Str(Join(Get(task, "tools").v, ", ")),
       kpi |-> Get(task, "kpi"),
       postDraft |-> Get(task, "postDraft")])

\* One daily task of the transform.
TransformTask(task) ==
  Obj([day |-> Get(task, "day"),
       description |-> Or(Get(task, "task"), Get(task, "description")),
       timeEstimate |-> Or(Get(task, "time"), Get(task, "timeEstimate")),
       tool |-> IF IsArray(Get(task, "tools"))
                THEN Str(Join(Get(task, "tools").v, ", "))
                ELSE Get(task, "tool"),
       kpi |-> Get(task, "kpi"),
       postDraft |-> Get(task, "postDraft")])

TransformWeek(week) ==
  Obj([title |-> Get(week, "title"),
       goal |-> Get(week, "goal"),
       dailyTasks |-> Arr([i \in 1..Len(Get(week, "dailyTasks").v) |->
                             TransformTask(Get(week, "dailyTasks").v[i])]),
       redditTips |-> Or(Get(week, "redditTips"), Arr(<<>>))])

transformedPlan(finalPlan) ==
  Obj([overview |-> Get(finalPlan, "overview"),
       weeklyPlan |-> Arr([i \in 1..Len(Get(finalPlan, "weeklyPlan").v) |->
                             TransformWeek(Get(finalPlan, "weeklyPlan").v[i])]),
       recommendedTools |-> Or(Get(finalPlan, "recommendedTools"), Arr(<<>>)),
       kpis |-> Or(Get(finalPlan, "kpis"), Arr(<<>>)),
       nextActions |-> Get(finalPlan, "nextActions")])

\* Stage 3.  The post drafts reach the service in the prompt; nothing else
\* is done with them.
finalizeWithO3(outcome) ==
  LET parsed == ParsedContent(outcome, "No content received from O3") IN
  Rethrow("Failed to finalize plan",
          IF parsed.threw THEN parsed
          ELSE IF TransformError(parsed.value) # "" THEN Threw(TransformError(parsed.value))
          ELSE Returned(transformedPlan(parsed.value)))

-----------------------------------------------------------------------------
(* The inputs of the model.                                                *)

\* Bodies of POST /api/generate-plan: one valid, one with a 9-character idea,
\* one without industry, one without targetMarket.
TextBodies ==
  { [businessIdea |-> "Sell soaps", industry |-> "Retail", targetMarket |-> "Hotels"],
    [businessIdea |-> "Sell soap", industry |-> "Retail", targetMarket |-> "Hotels"],
    [businessIdea |-> "Sell soaps", targetMarket |-> "Hotels"],
    [businessIdea |-> "Sell soaps", industry |-> "Retail"] }

\* Form fields sent beside the document of POST /api/generate-plan-pdf: the
\* industry is given, the target market is left empty, the rest is not sent.
PdfForms == { [industry |-> "Retail", targetMarket |-> ""] }

\* pdf-parse: it rejects, or resolves with the text of the document.
PdfOutcomes ==
  { [threw |-> TRUE, message |-> "Invalid PDF structure"],
    [threw |-> FALSE, text |-> ""],
    [threw |-> FALSE, text |-> "   "],
    [threw |-> FALSE, text |-> "We sell soaps to hotels"] }

\* The strings of the model that consist of white space only.
Trim(s) ==
  CASE s \in {"", " ", "   "} -> ""
    [] s = " Relaunch " -> "Relaunch"
    [] OTHER -> s

\* The summarising call of extractTextFromPDF: it rejects, or resolves with a
\* message content (not parsed as JSON).
TextContent(c) == [kind |-> "content", content |-> c]
ExtractOutcomes ==
  { ApiError("429 Rate limit reached"),
    TextContent(Null),
    TextContent(Str("Soap")),
    TextContent(Str("A soap shop for hotels")) }

Draft9 == Obj([title |-> Str("How I fixed it"), body |-> Str("Story")])
Draft27 == Obj([thread |-> Arr(<<Str("Hook"), Str("Reveal")>>)])
PostDraft(day, channel, draft) ==
  Obj([day |-> Num(day), channel |-> Str(channel), draft |-> draft])

\* The plan of stage 1 and the cleaned copy of stage 2: one week with one task, D9.
DraftPlan ==
  Obj([overview |-> Str("Reach 10 hotels by day 30"),
       weeklyPlan |-> Arr(<<
         Obj([title |-> Str("Week 2"), goal |-> Str("Validate"),
              dailyTasks |-> Arr(<<
                Obj([day |-> Str("D9"), description |-> Str("Post on Reddit"),
                     timeEstimate |-> Str("2h"), tool |-> Str("Reddit (free)"),
                     kpi |-> Str("1 post live")]) >>),
              redditTips |-> Arr(<<Str("Be helpful")>>)]) >>),
       recommendedTools |-> Arr(<<>>),
       kpis |-> Arr(<<>>)])

StageTwoResult(drafts) == Obj([proofreadPlan |-> DraftPlan, postDrafts |-> Arr(drafts)])

\* A plan of the stage 3 service with one week holding the given tasks.
ServicePlan(tasks) ==
  Obj([overview |-> Str("Reach 10 hotels by day 30"),
       weeklyPlan |-> Arr(<<
         Obj([title |-> Str("Week 2"), goal |-> Str("Validate"),
              dailyTasks |-> Arr(tasks)]) >>)])

ServiceTask(draft) ==
  Obj([day |-> Str("D9"), task |-> Str("Post on Reddit"), tools |-> Arr(<<Str("Reddit")>>),
       time |-> Str("2h"), kpi |-> Str("1 post live"), postDraft |-> draft])

Stage1Outcomes ==
  { ApiError("429 Rate limit reached"), NoContent, NotJson, Json(DraftPlan) }

Stage2Outcomes ==
  { ApiError("429 Rate limit reached"), NoContent, NotJson, Json(Null),
    Json(StageTwoResult(<<PostDraft(9, "Reddit", Draft9)>>)),
    Json(StageTwoResult(<<PostDraft(27, "Twitter", Draft27)>>)) }

\* Stage 3 answers: a plan that follows the prompt; the same plan carrying the
\* draft of day 27; a task without tool, kpi and draft; a plan with an empty
\* weekly plan and nothing else; an empty object.
Stage3Outcomes ==
  { ApiError("429 Rate limit reached"), NoContent, NotJson,
    Json(ServicePlan(<<ServiceTask(Draft9)>>)),
    Json(ServicePlan(<<ServiceTask(Draft27)>>)),
    Json(ServicePlan(<<Obj([day |-> Str("D9"), task |-> Str("Post on Reddit"),
                            time |-> Str("2h")])>>)),
    Json(Obj([weeklyPlan |-> Arr(<<>>)])),
    Json(Obj([x \in {} |-> Undefined])) }

\* The database's answer to the insert of createLaunchPlan.
DbOutcomes == { [threw |-> FALSE], [threw |-> TRUE, message |-> "Connection terminated"] }

-----------------------------------------------------------------------------
(* The state.                                                              *)

VARIABLES
  pc,           \* per request: the await its handler is suspended at
  request,      \* per request: the route it came to and its body
  locals,       \* per request: the local variables of its handler
  response,     \* per request: what res.json sent, NoResponse before
  log,          \* per request: the progress lines of generateLaunchPlan (console.log)
  calls,        \* per request: the calls issued to the generative service, in order
  inflight,     \* per request: the calls issued and not yet settled
  origin,       \* per request: the error a stage raised, NoError when none did
  thrown,       \* per request: the error generateLaunchPlan raised to the route
  launchPlans,  \* the launch_plans table, in insertion order
  planSeq,      \* the last value of the serial launch_plans.id
  finalPlan,    \* the reconciler alone: the parsed plan it is given
  passes,       \* the reconciler alone: its successive inputs and results
  now,          \* the clock new Date() reads, in milliseconds
  statement,    \* per request: the statement sent to the database, not yet applied
  issued,       \* per plan id: the share tokens the share route has answered with
  edited,       \* per plan id: the payload of the last edit the edit route answered
  stream,       \* per request: the frames written to its connection, and its timer
  currentGenerationStep,  \* the page: the step its stepper is given
  isGenerating, \* the page: the flag of the same name
  mutation,     \* the page: the generate mutation that is pending, "none" when none is
  timers,       \* the page: the timeouts set and not yet fired
  runs,         \* the page: the number of generation runs started
  communityFeedback,  \* the community_feedback table
  feedbackVotes,      \* the feedback_votes table, in insertion order
  votesCast     \* the number of vote requests that have arrived

\* The page of the client.
clientVars == <<currentGenerationStep, isGenerating, mutation, timers, runs>>

\* The tables of the community feedback.
feedbackVars == <<communityFeedback, feedbackVotes, votesCast>>

vars ==
  <<pc, request, locals, response, log, calls, inflight, origin, thrown, launchPlans,
    planSeq, finalPlan, passes, now, statement, issued, edited, stream, clientVars,
    feedbackVars>>

\* What the generate routes never touch.
elsewhere == <<finalPlan, passes, now, issued, edited, stream, clientVars, feedbackVars>>

\* What the generate routes read and write.
generateVars ==
  <<pc, request, locals, response, log, calls, inflight, origin, thrown, launchPlans,
    planSeq, statement>>

\* What the routes of a stored plan never touch.
pipelineVars ==
  <<locals, log, calls, inflight, origin, thrown, finalPlan, passes, stream, clientVars,
    feedbackVars>>

Stages == {"stage1", "stage2", "stage3"}

NoRequest == [route |-> "none", body |-> <<>>]
NoResponse == [status |-> 0]
NoStatement == [op |-> "none"]
NoneIssued == [last |-> Null, ever |-> {}]
NoError == [stage |-> "none"]

\* The locals of a handler before it assigns them, and once it has returned.
NoLocals ==
  [businessInfo |-> <<>>, extractedText |-> "", rawPlan |-> Undefined,
   proofreadPlan |-> Undefined, postDrafts |-> Undefined, generatedPlan |-> Undefined]

\* No request has arrived and the table is empty.
InitGenerate ==
  /\ pc = [r \in Reqs |-> "idle"]
  /\ request = [r \in Reqs |-> NoRequest]
  /\ locals = [r \in Reqs |-> NoLocals]
  /\ response = [r \in Reqs |-> NoResponse]
  /\ log = [r \in Reqs |-> <<>>]
  /\ calls = [r \in Reqs |-> <<>>]
  /\ inflight = [r \in Reqs |-> {}]
  /\ origin = [r \in Reqs |-> NoError]
  /\ thrown = [r \in Reqs |-> NoError]
  /\ launchPlans = <<>>
  /\ planSeq = 0
  /\ statement = [r \in Reqs |-> NoStatement]

\* The clock reads 0 and no token and no edit has been answered.
InitStore ==
  /\ now = 0
  /\ issued = [id \in SharedIds |-> NoneIssued]
  /\ edited = [id \in SharedIds |-> Undefined]

\* No connection is open.
NoStream == [frames |-> <<>>, interval |-> FALSE, ended |-> FALSE]

InitStream == stream = [r \in Reqs |-> NoStream]

\* The page as it is first rendered.
InitClient ==
  /\ currentGenerationStep = 0
  /\ isGenerating = FALSE
  /\ mutation = "none"
  /\ timers = {}
  /\ runs = 0

\* No feedback has been given.
InitFeedback ==
  /\ communityFeedback = <<>>
  /\ feedbackVotes = <<>>
  /\ votesCast = 0

Init ==
  /\ InitGenerate
  /\ InitStore
  /\ InitStream
  /\ InitClient
  /\ InitFeedback
  /\ finalPlan = Undefined
  /\ passes = <<>>

-----------------------------------------------------------------------------
(* server/services/openai.ts: generateLaunchPlan.                          *)

\* Seeded fault: the line of stage 2 is logged again before stage 3.
ProgressLineRepeated(stage) ==
  CASE stage = "stage1" -> "Stage 1: Generating initial plan with GPT-4o..."
    [] stage = "stage2" -> "Stage 2: Proofreading and generating social posts with GPT-4.5..."
    [] stage = "stage3" -> "Stage 2: Proofreading and generating social posts with GPT-4.5..."
    [] OTHER -> "Launch plan generation complete!"

\* The console.log line that precedes the call of a stage, and the last one.
ProgressLine(stage) ==
  CASE stage = "stage1" -> "Stage 1: Generating initial plan with GPT-4o..."
    [] stage = "stage2" -> "Stage 2: Proofreading and generating social posts with GPT-4.5..."
    [] stage = "stage3" -> "Stage 3: Finalizing with O3 quality assurance..."
    [] OTHER -> "Launch plan generation complete!"

FirstStage == "stage1"

\* Seeded fault: the orchestrator goes from stage 1 straight to stage 3.
NextStageSkipsProofreading(stage) ==
  CASE stage = "stage1" -> "stage3"
    [] OTHER -> "done"

\* Seeded fault: the orchestrator issues the call of stage 1 a second time.
NextStageCallsAgain(stage) ==
  CASE stage = "stage1" -> "stage1"
    [] stage = "stage2" -> "stage3"
    [] OTHER -> "done"

\* The stage the orchestrator calls once `stage` has returned; "done" after the last.
NextStage(stage) ==
  CASE stage = "stage1" -> "stage2"
    [] stage = "stage2" -> "stage3"
    [] OTHER -> "done"

\* What the awaited stage function makes of the service's answer.
StageResult(stage, outcome) ==
  CASE stage = "stage1" -> generateInitialPlan(outcome)
    [] stage = "stage2" -> proofreadAndGeneratePosts(outcome)
    [] OTHER -> finalizeWithO3(outcome)

\* const { proofreadPlan, postDrafts } = <value>
Destructure(value) ==
  IF IsNullish(value)
  THEN [threw |-> TRUE, name |-> "TypeError",
        message |-> "Cannot destructure property 'proofreadPlan' of '(intermediate value)' as it is "
                    \o value.t \o "."]
  ELSE Returned([proofreadPlan |-> Get(value, "proofreadPlan"),
                 postDrafts |-> Get(value, "postDrafts")])

\* Seeded fault: the catch block logs the error and returns nothing.
generateLaunchPlanSwallows(error) == Returned(Undefined)

\* Seeded fault: the catch block returns a fallback plan built from the error.
generateLaunchPlanFallsBack(error) ==
  Returned(Obj([overview |-> Str(error.message), weeklyPlan |-> Arr(<<>>)]))

\* The catch block of generateLaunchPlan: what the caller gets for an error.
generateLaunchPlanCatch(error) ==
  Threw("Failed to generate launch plan: " \o error.message)

\* The catch blocks of the two generate routes.
RouteCatch(error) == [status |-> 400, success |-> FALSE, error |-> error.message]

\* generateLaunchPlan(info) up to its first await: the first progress line
\* and the call of stage 1.
StartPipeline(r, frame) ==
  /\ locals' = [locals EXCEPT ![r] = frame]
  /\ log' = [log EXCEPT ![r] = <<ProgressLine(FirstStage)>>]
  /\ calls' = [calls EXCEPT ![r] = Append(@, FirstStage)]
  /\ inflight' = [inflight EXCEPT ![r] = {FirstStage}]
  /\ pc' = [pc EXCEPT ![r] = FirstStage]
  /\ UNCHANGED <<response, origin, thrown, launchPlans, planSeq, statement>>

\* The handler sends `res` and returns: its locals are gone.
Respond(r, res) ==
  /\ response' = [response EXCEPT ![r] = res]
  /\ pc' = [pc EXCEPT ![r] = "done"]
  /\ inflight' = [inflight EXCEPT ![r] = {}]
  /\ locals' = [locals EXCEPT ![r] = NoLocals]
  /\ statement' = [statement EXCEPT ![r] = NoStatement]

\* Seeded fault: the catch block of the route logs the error and sends
\* nothing.
AfterPipelineSendsNothing(r, result) ==
  IF result.threw
  THEN /\ pc' = [pc EXCEPT ![r] = "caught"]
       /\ inflight' = [inflight EXCEPT ![r] = {}]
       /\ UNCHANGED <<response, locals, statement, launchPlans, planSeq>>
  ELSE /\ locals' = [locals EXCEPT ![r].generatedPlan = result.value]
       /\ statement' = [statement EXCEPT ![r] =
                          [op |-> "insert",
                           values |-> [businessInfo |-> Stringify(locals[r].businessInfo),
                                       generatedPlan |-> result.value,
                                       createdAt |-> now,
                                       updatedAt |-> now]]]
       /\ pc' = [pc EXCEPT ![r] = "create"]
       /\ inflight' = [inflight EXCEPT ![r] = {}]
       /\ UNCHANGED <<response, launchPlans, planSeq>>

\* The route once the awaited generateLaunchPlan has settled with `result`:
\* its catch block, or the insert of storage.createLaunchPlan.
AfterPipeline(r, result) ==
  IF result.threw
  THEN /\ Respond(r, RouteCatch(result))
       /\ UNCHANGED <<launchPlans, planSeq>>
  ELSE /\ locals' = [locals EXCEPT ![r].generatedPlan = result.value]
       /\ statement' = [statement EXCEPT ![r] =
                          [op |-> "insert",
                           values |-> [businessInfo |-> Stringify(locals[r].businessInfo),
                                       generatedPlan |-> result.value,
                                       createdAt |-> now,
                                       updatedAt |-> now]]]
       /\ pc' = [pc EXCEPT ![r] = "create"]
       /\ inflight' = [inflight EXCEPT ![r] = {}]
       /\ UNCHANGED <<response, launchPlans, planSeq>>

\* A stage call of request r settles with `outcome`.
StageReturn(r, stage, outcome) ==
  /\ pc[r] = stage
  /\ LET res == StageResult(stage, outcome)
         parts == IF stage = "stage2" /\ ~res.threw THEN Destructure(res.value) ELSE res
         next == NextStage(stage)
     IN IF parts.threw
        THEN \* the catch block of generateLaunchPlan, then the route
             /\ origin' = [origin EXCEPT ![r] =
                             [stage |-> IF res.threw THEN stage ELSE "orchestrator",
                              name |-> parts.name, message |-> parts.message]]
             /\ thrown' = [thrown EXCEPT ![r] = generateLaunchPlanCatch(parts)]
             /\ AfterPipeline(r, generateLaunchPlanCatch(parts))
             /\ UNCHANGED <<log, calls>>
        ELSE IF next = "done"
        THEN \* the last progress line; the plan returns to the route
             /\ log' = [log EXCEPT ![r] = Append(@, ProgressLine(next))]
             /\ AfterPipeline(r, Returned(parts.value))
             /\ UNCHANGED <<calls, origin, thrown>>
        ELSE \* the next progress line and the next call
             /\ locals' = [locals EXCEPT ![r] =
                             IF stage = "stage1" THEN [@ EXCEPT !.rawPlan = parts.value]
                             ELSE [@ EXCEPT !.proofreadPlan = parts.value.proofreadPlan,
                                            !.postDrafts = parts.value.postDrafts]]
             /\ log' = [log EXCEPT ![r] = Append(@, ProgressLine(next))]
             /\ calls' = [calls EXCEPT ![r] = Append(@, next)]
             /\ inflight' = [inflight EXCEPT ![r] = {next}]
             /\ pc' = [pc EXCEPT ![r] = next]
             /\ UNCHANGED <<response, origin, thrown, launchPlans, planSeq, statement>>
  /\ UNCHANGED request
  /\ UNCHANGED elsewhere

Stage1Return(r) == \E o \in Stage1Outcomes : StageReturn(r, "stage1", o)
Stage2Return(r) == \E o \in Stage2Outcomes : StageReturn(r, "stage2", o)
Stage3Return(r) == \E o \in Stage3Outcomes : StageReturn(r, "stage3", o)

-----------------------------------------------------------------------------
(* server/routes.ts: POST /api/generate-plan.                              *)

PostGeneratePlan(r) ==
  /\ pc[r] = "idle"
  /\ \E body \in TextBodies :
       LET validatedData == businessInfoSchema(body) IN
       /\ request' = [request EXCEPT ![r] = [route |-> "text", body |-> body]]
       /\ IF validatedData.threw
          THEN /\ Respond(r, RouteCatch(validatedData))
               /\ UNCHANGED <<log, calls, origin, thrown, launchPlans, planSeq>>
          ELSE StartPipeline(r, [locals[r] EXCEPT !.businessInfo = validatedData.value])
  /\ UNCHANGED elsewhere

-----------------------------------------------------------------------------
(* server/routes.ts: POST /api/generate-plan-pdf, and extractTextFromPDF.  *)

\* field || fallback
FormOr(form, k, fallback) ==
  IF k \in DOMAIN form /\ form[k] # "" THEN form[k] ELSE fallback

\* The businessInfo the route builds from the extracted text and the form.
PdfBusinessInfo(extractedText, form) ==
  [businessIdea |-> extractedText,
   industry |-> FormOr(form, "industry", "Not specified"),
   targetMarket |-> FormOr(form, "targetMarket", "Not specified"),
   timeCommitment |-> FormOr(form, "timeCommitment", DefaultTimeCommitment),
   budget |-> FormOr(form, "budget", DefaultBudget),
   additionalDetails |-> FormOr(form, "additionalDetails",
                                "Extracted from uploaded PDF document")]

\* catch (error) { throw new Error("Failed to extract text from PDF: " + ...) }
ExtractCatch(message) == Threw("Failed to extract text from PDF: " \o message)

\* The request arrives, with or without a file; pdf-parse is called.
PostGeneratePlanPdf(r) ==
  /\ pc[r] = "idle"
  /\ \E hasFile \in BOOLEAN, form \in PdfForms :
       /\ request' = [request EXCEPT ![r] = [route |-> "pdf", body |-> form]]
       /\ IF ~hasFile
          THEN Respond(r, [status |-> 400, success |-> FALSE, error |-> "No PDF file uploaded"])
          ELSE /\ pc' = [pc EXCEPT ![r] = "pdf"]
               /\ UNCHANGED <<response, inflight, locals, statement>>
       /\ UNCHANGED <<log, calls, origin, thrown, launchPlans, planSeq>>
  /\ UNCHANGED elsewhere

\* pdf-parse settles: the summarising call is issued when the text is not blank.
PdfReturn(r) ==
  /\ pc[r] = "pdf"
  /\ \E data \in PdfOutcomes :
       IF data.threw
       THEN /\ Respond(r, RouteCatch(ExtractCatch(data.message)))
            /\ UNCHANGED calls
       ELSE IF data.text # "" /\ Len(Trim(data.text)) > 0
       THEN /\ calls' = [calls EXCEPT ![r] = Append(@, "extract")]
            /\ inflight' = [inflight EXCEPT ![r] = {"extract"}]
            /\ pc' = [pc EXCEPT ![r] = "extract"]
            /\ UNCHANGED <<response, locals, statement>>
       ELSE /\ Respond(r, RouteCatch(ExtractCatch("No text content found in PDF")))
            /\ UNCHANGED calls
  /\ UNCHANGED <<request, log, origin, thrown, launchPlans, planSeq>>
  /\ UNCHANGED elsewhere

\* The summarising call settles: the route builds businessInfo and calls
\* generateLaunchPlan with it.
ExtractReturn(r) ==
  /\ pc[r] = "extract"
  /\ \E o \in ExtractOutcomes :
       IF o.kind = "throw"
       THEN /\ Respond(r, RouteCatch(ExtractCatch(o.message)))
            /\ UNCHANGED <<log, calls, origin, thrown, launchPlans, planSeq>>
       ELSE LET extractedText == Or(o.content, Str("")).v IN
            StartPipeline(r, [locals[r] EXCEPT
                                !.extractedText = extractedText,
                                !.businessInfo = PdfBusinessInfo(extractedText, request[r].body)])
  /\ UNCHANGED request
  /\ UNCHANGED elsewhere

-----------------------------------------------------------------------------
(* server/storage.ts: DatabaseStorage.createLaunchPlan, and the end of the  *)
(* two generate routes.                                                    *)

\* Seeded fault: the id of the new row is not drawn from the sequence.
createLaunchPlanSameId(insertPlan, id, r) ==
  [id |-> 1,
   businessInfo |-> insertPlan.businessInfo,
   generatedPlan |-> JsonRoundTrip(insertPlan.generatedPlan),
   createdAt |-> insertPlan.createdAt,
   updatedAt |-> insertPlan.updatedAt,
   shareToken |-> Null,
   isEditable |-> TRUE,
   request |-> r]

\* The row the insert returns.  `request` is no column: it records the
\* request that made the row.
createLaunchPlan(insertPlan, id, r) ==
  [id |-> id,
   businessInfo |-> insertPlan.businessInfo,
   generatedPlan |-> JsonRoundTrip(insertPlan.generatedPlan),
   createdAt |-> insertPlan.createdAt,
   updatedAt |-> insertPlan.updatedAt,
   shareToken |-> Null,
   isEditable |-> TRUE,
   request |-> r]

\* res.json({ success: true, plan, planId [, extractedText] })
Success(route, frame, savedPlan) ==
  IF route = "pdf"
  THEN [status |-> 200, success |-> TRUE, plan |-> JsonRoundTrip(frame.generatedPlan),
        planId |-> savedPlan.id, extractedText |-> frame.extractedText]
  ELSE [status |-> 200, success |-> TRUE, plan |-> JsonRoundTrip(frame.generatedPlan),
        planId |-> savedPlan.id]

\* The insert settles.
CreateReturn(r) ==
  /\ pc[r] = "create"
  /\ \E db \in DbOutcomes :
       IF db.threw
       THEN /\ Respond(r, RouteCatch(db))
            /\ UNCHANGED <<launchPlans, planSeq>>
       ELSE LET savedPlan == createLaunchPlan(statement[r].values, planSeq + 1, r)
            IN /\ launchPlans' = Append(launchPlans, savedPlan)
               /\ planSeq' = planSeq + 1
               /\ Respond(r, Success(request[r].route, locals[r], savedPlan))
  /\ UNCHANGED <<request, log, calls, origin, thrown>>
  /\ UNCHANGED elsewhere

-----

Next ==
  \E r \in Reqs :
    \/ PostGeneratePlan(r)
    \/ PostGeneratePlanPdf(r)
    \/ PdfReturn(r)
    \/ ExtractReturn(r)
    \/ Stage1Return(r)
    \/ Stage2Return(r)
    \/ Stage3Return(r)
    \/ CreateReturn(r)

Spec == Init /\ [][Next]_vars

\* Every call a handler awaits settles: pdf-parse, the generative service
\* and the database each return or throw in the end.
Settles ==
  \A r \in Reqs :
    /\ WF_vars(PdfReturn(r))
    /\ WF_vars(ExtractReturn(r))
    /\ WF_vars(Stage1Return(r))
    /\ WF_vars(Stage2Return(r))
    /\ WF_vars(Stage3Return(r))
    /\ WF_vars(CreateReturn(r))

SpecSettles == Init /\ [][Next]_vars /\ Settles

-----------------------------------------------------------------------------
(* server/storage.ts, DatabaseStorage, and shared/schema.ts, launchPlans:  *)
(* the statements on the launch_plans table.                               *)

\* The row with the given id, undefined when there is none.
getLaunchPlan(id) ==
  LET found == {i \in DOMAIN launchPlans : launchPlans[i].id = id} IN
  IF found = {} THEN Undefined ELSE launchPlans[CHOOSE i \in found : TRUE]

\* The row with the given share token, undefined when there is none.
getLaunchPlanByShareToken(shareToken) ==
  LET found == {i \in DOMAIN launchPlans : launchPlans[i].shareToken = Str(shareToken)} IN
  IF found = {} THEN Undefined
  ELSE launchPlans[CHOOSE i \in found : \A j \in found : i <= j]

\* updateLaunchPlan(id, updates) up to its await: the UPDATE it sends, with
\* the clock read in the SET clause.
updateLaunchPlan(id, updates) ==
  [op |-> "update", id |-> id,
   set |-> [k \in DOMAIN updates \cup {"updatedAt"} |->
              IF k = "updatedAt" THEN now ELSE updates[k]]]

\* Seeded fault: share_token is declared without unique().
UniqueViolationNever(table, stmt) == FALSE

\* share_token is unique: the UPDATE would leave two rows with one token.
UniqueViolation(table, stmt) ==
  /\ "shareToken" \in DOMAIN stmt.set
  /\ \E i, j \in DOMAIN table :
       /\ table[i].id = stmt.id
       /\ table[j].id # stmt.id
       /\ table[j].shareToken = stmt.set.shareToken

\* Seeded fault: a row that has a share token keeps it.
UpdatedKeepsToken(table, stmt) ==
  [i \in DOMAIN table |->
     IF table[i].id # stmt.id THEN table[i]
     ELSE [k \in DOMAIN table[i] |->
             IF k \notin DOMAIN stmt.set THEN table[i][k]
             ELSE IF k = "generatedPlan" THEN JsonRoundTrip(stmt.set[k])
             ELSE IF k = "shareToken" /\ table[i][k] # Null THEN table[i][k]
             ELSE stmt.set[k]]]

\* Seeded fault: the SET clause carries updatedAt and shareToken only.
UpdatedIgnoresPlan(table, stmt) ==
  [i \in DOMAIN table |->
     IF table[i].id # stmt.id THEN table[i]
     ELSE [k \in DOMAIN table[i] |->
             IF k \notin DOMAIN stmt.set \/ k = "generatedPlan" THEN table[i][k]
             ELSE stmt.set[k]]]

\* Seeded fault: the UPDATE is sent without its WHERE clause.
UpdatedEveryRow(table, stmt) ==
  [i \in DOMAIN table |->
     [k \in DOMAIN table[i] |->
        IF k \notin DOMAIN stmt.set THEN table[i][k]
        ELSE IF k = "generatedPlan" THEN JsonRoundTrip(stmt.set[k])
        ELSE stmt.set[k]]]

\* The table once the UPDATE is applied; generated_plan is a jsonb column.
Updated(table, stmt) ==
  [i \in DOMAIN table |->
     IF table[i].id # stmt.id THEN table[i]
     ELSE [k \in DOMAIN table[i] |->
             IF k \notin DOMAIN stmt.set THEN table[i][k]
             ELSE IF k = "generatedPlan" THEN JsonRoundTrip(stmt.set[k])
             ELSE stmt.set[k]]]

\* Seeded fault: when no row matches, the values of the SET clause are
\* returned as if they were the row.
ReturningEchoes(table, stmt, db) ==
  IF db.threw THEN Threw(db.message)
  ELSE IF UniqueViolation(table, stmt)
  THEN Threw("duplicate key value violates unique constraint")
  ELSE LET found == {i \in DOMAIN table : table[i].id = stmt.id} IN
       IF found = {} THEN Returned(stmt.set)
       ELSE Returned(Updated(table, stmt)[CHOOSE i \in found : TRUE])

\* What the awaited UPDATE ... RETURNING resolves with, given the
\* database's answer: a rejection, the updated row, or undefined.
Returning(table, stmt, db) ==
  IF db.threw THEN Threw(db.message)
  ELSE IF UniqueViolation(table, stmt)
  THEN Threw("duplicate key value violates unique constraint")
  ELSE LET found == {i \in DOMAIN table : table[i].id = stmt.id} IN
       IF found = {} THEN Returned(Undefined)
       ELSE Returned(Updated(table, stmt)[CHOOSE i \in found : TRUE])

-----------------------------------------------------------------------------
(* The inputs of the routes of a stored plan.                              *)

\* Math.random().toString(36).substring(2) + Date.now().toString(36)
Tokens == {"k3f9lz", "x7q2lz"}

\* The plan a generate request stored.
GeneratedPlan == transformedPlan(ServicePlan(<<ServiceTask(Draft9)>>))

\* Bodies of PUT /api/plan/:id: a replacement plan, one whose title has
\* white space around it, and a body whose generatedPlan is a string.
EditedPlan == Obj([overview |-> Str("Reach 20 hotels by day 30"), weeklyPlan |-> Arr(<<>>)])
TitledPlan == Obj([title |-> Str(" Relaunch "), overview |-> Str("Reach 20 hotels by day 30")])
PutBodies ==
  { [generatedPlan |-> EditedPlan], [generatedPlan |-> TitledPlan],
    [generatedPlan |-> Str("plan")] }

-----------------------------------------------------------------------------
(* server/routes.ts: the routes of a stored plan.  A handler of these       *)
(* routes serves one request after another.                                *)

\* A request arrives at a handler that waits for none.
Free(r) == pc[r] \in {"idle", "done"}

\* The handler sends `res` and returns.
Answer(r, res) ==
  /\ response' = [response EXCEPT ![r] = res]
  /\ pc' = [pc EXCEPT ![r] = "done"]
  /\ statement' = [statement EXCEPT ![r] = NoStatement]

\* The handler sends `stmt` to the database and awaits its answer.
Send(r, stmt, at) ==
  /\ statement' = [statement EXCEPT ![r] = stmt]
  /\ pc' = [pc EXCEPT ![r] = at]
  /\ response' = [response EXCEPT ![r] = NoResponse]

NotFound(message) == [status |-> 404, success |-> FALSE, error |-> message]
Failed(message) == [status |-> 400, success |-> FALSE, error |-> message]

\* The errors of the validation chain of PUT /api/plan/:id.
PutErrors(id, body) ==
  (IF id < 1 THEN <<"Invalid plan ID">> ELSE <<>>)
  \o (IF body.generatedPlan.t # "object"
      THEN <<"Generated plan must be an object">> ELSE <<>>)
  \o (IF Get(body.generatedPlan, "title") # Undefined /\ ~IsString(Get(body.generatedPlan, "title"))
      THEN <<"Title must be less than 200 characters">> ELSE <<>>)

\* The body as the chain leaves it: trim() rewrites generatedPlan.title.
Sanitized(body) ==
  IF IsString(Get(body.generatedPlan, "title"))
  THEN [body EXCEPT !.generatedPlan = Obj([@.v EXCEPT !.title = Str(Trim(@.v))])]
  ELSE body

\* PUT /api/plan/:id up to its await.
PutPlan(r, ids) ==
  /\ Free(r)
  /\ \E id \in ids, body \in PutBodies :
       /\ request' = [request EXCEPT ![r] = [route |-> "put", id |-> id, body |-> body]]
       /\ IF PutErrors(id, body) # <<>>
          THEN Answer(r, [status |-> 400, success |-> FALSE, errors |-> PutErrors(id, body)])
          ELSE Send(r, updateLaunchPlan(id, [generatedPlan |-> Sanitized(body).generatedPlan,
                                             updatedAt |-> now]), "update")
  /\ UNCHANGED <<launchPlans, planSeq, now, issued, edited, pipelineVars>>

\* POST /api/plan/:id/share up to its await.
PostShare(r, ids) ==
  /\ Free(r)
  /\ \E id \in ids, shareToken \in Tokens :
       /\ request' = [request EXCEPT ![r] = [route |-> "share", id |-> id]]
       /\ Send(r, updateLaunchPlan(id, [shareToken |-> Str(shareToken), updatedAt |-> now]),
               "update")
  /\ UNCHANGED <<launchPlans, planSeq, now, issued, edited, pipelineVars>>

\* The UPDATE of request r is applied, or fails; the route answers.
UpdateReturn(r) ==
  /\ pc[r] = "update"
  /\ \E db \in DbOutcomes :
       LET stmt == statement[r]
           updatedPlan == Returning(launchPlans, stmt, db)
           edit == request[r].route = "put"
       IN IF updatedPlan.threw
          THEN /\ Answer(r, Failed(IF edit THEN "Failed to update launch plan"
                                   ELSE "Failed to generate share token"))
               /\ UNCHANGED <<launchPlans, issued, edited>>
          ELSE IF updatedPlan.value = Undefined
          THEN /\ Answer(r, NotFound("Launch plan not found"))
               /\ UNCHANGED <<launchPlans, issued, edited>>
          ELSE /\ launchPlans' = Updated(launchPlans, stmt)
               /\ IF edit
                  THEN /\ Answer(r, [status |-> 200, success |-> TRUE,
                                     plan |-> updatedPlan.value.generatedPlan])
                       /\ edited' = [edited EXCEPT ![stmt.id] = request[r].body.generatedPlan]
                       /\ UNCHANGED issued
                  ELSE /\ Answer(r, [status |-> 200, success |-> TRUE,
                                     shareToken |-> stmt.set.shareToken.v,
                                     shareUrl |-> "/share/" \o stmt.set.shareToken.v])
                       /\ issued' = [issued EXCEPT ![stmt.id] =
                                       [last |-> stmt.set.shareToken,
                                        ever |-> @.ever \cup {stmt.set.shareToken.v}]]
                       /\ UNCHANGED edited
  /\ UNCHANGED <<request, planSeq, now, pipelineVars>>

\* GET /api/plan/:id up to its await.
GetPlan(r, ids) ==
  /\ Free(r)
  /\ \E id \in ids :
       /\ request' = [request EXCEPT ![r] = [route |-> "get", id |-> id]]
       /\ Send(r, [op |-> "select", id |-> id], "select")
  /\ UNCHANGED <<launchPlans, planSeq, now, issued, edited, pipelineVars>>

\* GET /api/share/:token up to its await.
GetShared(r) ==
  /\ Free(r)
  /\ \E shareToken \in Tokens :
       /\ request' = [request EXCEPT ![r] = [route |-> "shared", token |-> shareToken]]
       /\ Send(r, [op |-> "select", shareToken |-> shareToken], "select")
  /\ UNCHANGED <<launchPlans, planSeq, now, issued, edited, pipelineVars>>

\* The SELECT of request r is answered; the route answers.
SelectReturn(r) ==
  /\ pc[r] = "select"
  /\ \E db \in DbOutcomes :
       LET byId == request[r].route = "get"
           plan == IF byId THEN getLaunchPlan(statement[r].id)
                   ELSE getLaunchPlanByShareToken(statement[r].shareToken)
       IN IF db.threw
          THEN Answer(r, Failed(IF byId THEN "Failed to retrieve launch plan"
                                ELSE "Failed to retrieve shared plan"))
          ELSE IF plan = Undefined
          THEN Answer(r, NotFound(IF byId THEN "Launch plan not found"
                                  ELSE "Shared plan not found"))
          ELSE IF byId
          THEN Answer(r, [status |-> 200, success |-> TRUE, plan |-> plan.generatedPlan])
          ELSE Answer(r, [status |-> 200, success |-> TRUE, plan |-> plan.generatedPlan,
                          isEditable |-> plan.isEditable])
  /\ UNCHANGED <<request, launchPlans, planSeq, now, issued, edited, pipelineVars>>

\* A generate request, its pipeline left out, has its row inserted; the
\* table comes to hold the plans of `ids`.
SavePlan(ids) ==
  /\ planSeq + 1 \in ids
  /\ launchPlans' =
       Append(launchPlans,
              createLaunchPlan([businessInfo |-> Stringify(businessInfoSchema(
                                                   CHOOSE b \in TextBodies :
                                                     ~businessInfoSchema(b).threw).value),
                                generatedPlan |-> GeneratedPlan,
                                createdAt |-> now,
                                updatedAt |-> now],
                               planSeq + 1, 0))
  /\ planSeq' = planSeq + 1
  /\ UNCHANGED <<pc, request, response, statement, now, issued, edited, pipelineVars>>

\* A millisecond passes.
Tick ==
  /\ now < MaxClock
  /\ now' = now + 1
  /\ UNCHANGED <<pc, request, response, statement, launchPlans, planSeq, issued, edited,
                 pipelineVars>>

\* Requests that edit, fetch and share the plans of PlanIds, as time passes.
NextStore ==
  \/ SavePlan(PlanIds)
  \/ Tick
  \/ \E r \in Reqs :
       \/ PutPlan(r, PlanIds)
       \/ PostShare(r, PlanIds)
       \/ UpdateReturn(r)
       \/ GetPlan(r, PlanIds)
       \/ GetShared(r)
       \/ SelectReturn(r)

SpecStore == Init /\ [][NextStore]_vars

\* Requests that share the plans of SharedIds and fetch them by token.
NextShare ==
  \/ SavePlan(SharedIds)
  \/ \E r \in Reqs :
       \/ PostShare(r, SharedIds)
       \/ UpdateReturn(r)
       \/ GetShared(r)
       \/ SelectReturn(r)

SpecShare == Init /\ [][NextShare]_vars

\* Requests of all four routes that name the ids of SharedIds while the
\* table holds the plans of PlanIds only.
NextLookup ==
  \/ SavePlan(PlanIds)
  \/ \E r \in Reqs :
       \/ PutPlan(r, SharedIds)
       \/ PostShare(r, SharedIds)
       \/ UpdateReturn(r)
       \/ GetPlan(r, SharedIds)
       \/ GetShared(r)
       \/ SelectReturn(r)

SpecLookup == Init /\ [][NextLookup]_vars

\* Requests that edit and share the plans of SharedIds.
NextFrame ==
  \/ SavePlan(SharedIds)
  \/ \E r \in Reqs :
       \/ PutPlan(r, SharedIds)
       \/ PostShare(r, SharedIds)
       \/ UpdateReturn(r)

SpecFrame == Init /\ [][NextFrame]_vars

-----------------------------------------------------------------------------
(* server/routes.ts, POST /api/feedback/:id/vote, and server/storage.ts,     *)
(* DatabaseStorage.voteFeedback: three awaited statements, the look-up of   *)
(* the user's vote, the insert or update of the vote, and the update of     *)
(* the counters.                                                           *)

\* Number of feedback items and of vote requests in a run.
MaxFeedback == 1
MaxVotes == 3

FeedbackIds == 1..MaxFeedback

\* The votingId of two sessions.
Users == {"s1", "s2"}

VoteTypes == {"upvote", "downvote"}

\* The voteType of the bodies of the vote route: the two types and another.
VoteBodies == VoteTypes \cup {"like"}

\* What the vote route never touches.
voteFrame ==
  <<launchPlans, planSeq, now, issued, edited, locals, log, calls, inflight, origin, thrown,
    finalPlan, passes, stream, clientVars>>

\* storage.createFeedback: a feedback item is inserted, its counters 0.
PostFeedback ==
  /\ Len(communityFeedback) < MaxFeedback
  /\ communityFeedback' =
       Append(communityFeedback,
              [id |-> Len(communityFeedback) + 1, upvotes |-> 0, downvotes |-> 0])
  /\ UNCHANGED <<pc, request, response, statement, feedbackVotes, votesCast, voteFrame>>

\* The rows of feedback_votes of a user on a feedback item.
VotesOf(table, feedbackId, userIdentifier) ==
  {i \in DOMAIN table :
     table[i].feedbackId = feedbackId /\ table[i].userIdentifier = userIdentifier}

\* The route up to the first await of voteFeedback; with `alone` the
\* request arrives while no other is being handled.
PostVote(r, alone) ==
  /\ Free(r)
  /\ alone => \A q \in Reqs : Free(q)
  /\ votesCast < MaxVotes
  /\ votesCast' = votesCast + 1
  /\ \E id \in FeedbackIds, userIdentifier \in Users, voteType \in VoteBodies :
       /\ request' = [request EXCEPT ![r] =
                        [route |-> "vote", id |-> id, userIdentifier |-> userIdentifier,
                         voteType |-> voteType]]
       /\ IF voteType \notin VoteTypes
          THEN Answer(r, [status |-> 400, success |-> FALSE,
                          errors |-> <<"Vote type must be upvote or downvote">>])
          ELSE Send(r, [op |-> "select", feedbackId |-> id,
                        userIdentifier |-> userIdentifier], "existingVote")
  /\ UNCHANGED <<communityFeedback, feedbackVotes, voteFrame>>

\* Seeded fault: a changed vote adds to the counter of its type and takes
\* nothing from the other.
CountUpdateAddsOnly(changed, voteType) ==
  IF voteType = "upvote" THEN [upvotes |-> 1, downvotes |-> 0]
  ELSE [upvotes |-> 0, downvotes |-> 1]

\* What the UPDATE of community_feedback adds to the counters, for a changed
\* vote and for a new one.
CountUpdate(changed, voteType) ==
  IF voteType = "upvote"
  THEN [upvotes |-> 1, downvotes |-> IF changed THEN 0 - 1 ELSE 0]
  ELSE [upvotes |-> IF changed THEN 0 - 1 ELSE 0, downvotes |-> 1]

\* The look-up is answered with the rows of the user's votes, of which the
\* handler takes the first; it returns, or sends the UPDATE or the INSERT
\* of the vote.
ExistingVoteReturn(r) ==
  /\ pc[r] = "existingVote"
  /\ LET found == VotesOf(feedbackVotes, request[r].id, request[r].userIdentifier) IN
     IF found = {}
     THEN Send(r, [op |-> "insert",
                   values |-> [feedbackId |-> request[r].id,
                               userIdentifier |-> request[r].userIdentifier,
                               voteType |-> request[r].voteType]], "vote")
     ELSE \E i \in found :
            IF feedbackVotes[i].voteType = request[r].voteType
            THEN Answer(r, [status |-> 200, success |-> TRUE])
            ELSE Send(r, [op |-> "update", id |-> feedbackVotes[i].id,
                          set |-> [voteType |-> request[r].voteType]], "vote")
  /\ UNCHANGED <<request, communityFeedback, feedbackVotes, votesCast, voteFrame>>

\* The statement on feedback_votes is applied, or rejected for the foreign
\* key of feedback_id; the handler sends the UPDATE of the counters.
VoteReturn(r) ==
  /\ pc[r] = "vote"
  /\ LET stmt == statement[r] IN
     IF stmt.op = "insert" /\ \A i \in DOMAIN communityFeedback :
                                communityFeedback[i].id # stmt.values.feedbackId
     THEN /\ Answer(r, Failed("Failed to vote on feedback"))
          /\ UNCHANGED feedbackVotes
     ELSE /\ feedbackVotes' =
               IF stmt.op = "insert"
               THEN Append(feedbackVotes,
                           [id |-> Len(feedbackVotes) + 1,
                            feedbackId |-> stmt.values.feedbackId,
                            userIdentifier |-> stmt.values.userIdentifier,
                            voteType |-> stmt.values.voteType])
               ELSE [i \in DOMAIN feedbackVotes |->
                       IF feedbackVotes[i].id = stmt.id
                       THEN [feedbackVotes[i] EXCEPT !.voteType = stmt.set.voteType]
                       ELSE feedbackVotes[i]]
          /\ Send(r, [op |-> "count", id |-> request[r].id,
                      add |-> CountUpdate(stmt.op = "update", request[r].voteType)], "count")
  /\ UNCHANGED <<request, communityFeedback, votesCast, voteFrame>>

\* The UPDATE of the counters is applied; the route answers.
CountReturn(r) ==
  /\ pc[r] = "count"
  /\ communityFeedback' =
       [i \in DOMAIN communityFeedback |->
          IF communityFeedback[i].id = statement[r].id
          THEN [communityFeedback[i] EXCEPT
                  !.upvotes = @ + statement[r].add.upvotes,
                  !.downvotes = @ + statement[r].add.downvotes]
          ELSE communityFeedback[i]]
  /\ Answer(r, [status |-> 200, success |-> TRUE])
  /\ UNCHANGED <<request, feedbackVotes, votesCast, voteFrame>>

\* Vote requests handled one at a time.
NextVotes ==
  \/ PostFeedback
  \/ \E r \in Reqs :
       \/ PostVote(r, TRUE)
       \/ ExistingVoteReturn(r)
       \/ VoteReturn(r)
       \/ CountReturn(r)

SpecVotes == Init /\ [][NextVotes]_vars

\* Vote requests handled as they arrive, one handler beside the other.
NextVotesConcurrent ==
  \/ PostFeedback
  \/ \E r \in Reqs :
       \/ PostVote(r, FALSE)
       \/ ExistingVoteReturn(r)
       \/ VoteReturn(r)
       \/ CountReturn(r)

SpecVotesConcurrent == Init /\ [][NextVotesConcurrent]_vars

-----------------------------------------------------------------------------
(* The streaming generate route, POST /api/generate-plan-sse, as replit.md  *)
(* (item 13) and the design describe it: the pipeline of generateLaunchPlan *)
(* with a progress callback at each progress line, a keep-alive written on  *)
(* an interval, and a terminal frame with the plan or with the error.       *)

\* Number of keep-alive frames written to one connection.
MaxKeepAlives == 2

\* What the streaming route never touches.
streamFrame == <<response, finalPlan, passes, now, issued, edited, clientVars, feedbackVars>>

ProgressFrame(line) == [type |-> "progress", message |-> line]
KeepAliveFrame == [type |-> "keep-alive"]
CompleteFrame(plan, planId) == [type |-> "complete", plan |-> plan, planId |-> planId]
ErrorFrame(error) == [type |-> "error", error |-> error.message]

\* The connection as the stream is opened: the keep-alive interval is set.
Opened == [frames |-> <<>>, interval |-> TRUE, ended |-> FALSE]

\* A frame is written to the connection.
WriteFrame(s, frame) == [s EXCEPT !.frames = Append(@, frame)]

\* Seeded fault: the terminal frame is written and the connection ended
\* with the keep-alive interval left running.
EndedKeepsInterval(s, frame) ==
  [frames |-> Append(s.frames, frame), interval |-> s.interval, ended |-> TRUE]

\* The terminal frame is written, the interval cleared, the connection ended.
Ended(s, frame) ==
  [frames |-> Append(s.frames, frame), interval |-> FALSE, ended |-> TRUE]

\* The handler of a streaming request returns.
Returns(r) ==
  /\ pc' = [pc EXCEPT ![r] = "done"]
  /\ inflight' = [inflight EXCEPT ![r] = {}]
  /\ locals' = [locals EXCEPT ![r] = NoLocals]
  /\ statement' = [statement EXCEPT ![r] = NoStatement]

KeepAlives(s) == Cardinality({i \in DOMAIN s.frames : s.frames[i] = KeepAliveFrame})

\* The request arrives: a body the schema rejects ends the stream with an
\* error frame; otherwise the stream is opened and the pipeline started, its
\* first progress signal written.
PostGeneratePlanSse(r) ==
  /\ pc[r] = "idle"
  /\ \E body \in TextBodies :
       LET validatedData == businessInfoSchema(body) IN
       /\ request' = [request EXCEPT ![r] = [route |-> "sse", body |-> body]]
       /\ IF validatedData.threw
          THEN /\ stream' = [stream EXCEPT ![r] = Ended(Opened, ErrorFrame(validatedData))]
               /\ Returns(r)
               /\ UNCHANGED <<log, calls, origin, thrown>>
          ELSE /\ stream' = [stream EXCEPT ![r] =
                               WriteFrame(Opened, ProgressFrame(ProgressLine(FirstStage)))]
               /\ locals' = [locals EXCEPT ![r].businessInfo = validatedData.value]
               /\ log' = [log EXCEPT ![r] = <<ProgressLine(FirstStage)>>]
               /\ calls' = [calls EXCEPT ![r] = Append(@, FirstStage)]
               /\ inflight' = [inflight EXCEPT ![r] = {FirstStage}]
               /\ pc' = [pc EXCEPT ![r] = FirstStage]
               /\ UNCHANGED <<origin, thrown, statement>>
  /\ UNCHANGED <<launchPlans, planSeq, streamFrame>>

\* The interval fires while it is set.
KeepAlive(r) ==
  /\ stream[r].interval
  /\ KeepAlives(stream[r]) < MaxKeepAlives
  /\ stream' = [stream EXCEPT ![r] = WriteFrame(@, KeepAliveFrame)]
  /\ UNCHANGED <<pc, request, locals, log, calls, inflight, origin, thrown, statement,
                 launchPlans, planSeq, streamFrame>>

\* A stage call of a streaming request settles with `outcome`.
SseStageReturn(r, stage, outcome) ==
  /\ pc[r] = stage
  /\ request[r].route = "sse"
  /\ LET res == StageResult(stage, outcome)
         parts == IF stage = "stage2" /\ ~res.threw THEN Destructure(res.value) ELSE res
         next == NextStage(stage)
     IN IF parts.threw
        THEN /\ origin' = [origin EXCEPT ![r] =
                             [stage |-> IF res.threw THEN stage ELSE "orchestrator",
                              name |-> parts.name, message |-> parts.message]]
             /\ thrown' = [thrown EXCEPT ![r] = generateLaunchPlanCatch(parts)]
             /\ stream' = [stream EXCEPT ![r] =
                             Ended(@, ErrorFrame(generateLaunchPlanCatch(parts)))]
             /\ Returns(r)
             /\ UNCHANGED <<log, calls>>
        ELSE IF next = "done"
        THEN /\ log' = [log EXCEPT ![r] = Append(@, ProgressLine(next))]
             /\ stream' = [stream EXCEPT ![r] = WriteFrame(@, ProgressFrame(ProgressLine(next)))]
             /\ locals' = [locals EXCEPT ![r].generatedPlan = parts.value]
             /\ statement' = [statement EXCEPT ![r] =
                                [op |-> "insert",
                                 values |-> [businessInfo |-> Stringify(locals[r].businessInfo),
                                             generatedPlan |-> parts.value,
                                             createdAt |-> now,
                                             updatedAt |-> now]]]
             /\ pc' = [pc EXCEPT ![r] = "create"]
             /\ inflight' = [inflight EXCEPT ![r] = {}]
             /\ UNCHANGED <<calls, origin, thrown>>
        ELSE /\ locals' = [locals EXCEPT ![r] =
                             IF stage = "stage1" THEN [@ EXCEPT !.rawPlan = parts.value]
                             ELSE [@ EXCEPT !.proofreadPlan = parts.value.proofreadPlan,
                                            !.postDrafts = parts.value.postDrafts]]
             /\ log' = [log EXCEPT ![r] = Append(@, ProgressLine(next))]
             /\ stream' = [stream EXCEPT ![r] = WriteFrame(@, ProgressFrame(ProgressLine(next)))]
             /\ calls' = [calls EXCEPT ![r] = Append(@, next)]
             /\ inflight' = [inflight EXCEPT ![r] = {next}]
             /\ pc' = [pc EXCEPT ![r] = next]
             /\ UNCHANGED <<origin, thrown, statement>>
  /\ UNCHANGED <<request, launchPlans, planSeq, streamFrame>>

SseStage1Return(r) == \E o \in Stage1Outcomes : SseStageReturn(r, "stage1", o)
SseStage2Return(r) == \E o \in Stage2Outcomes : SseStageReturn(r, "stage2", o)
SseStage3Return(r) == \E o \in Stage3Outcomes : SseStageReturn(r, "stage3", o)

\* The insert of the plan settles: the terminal frame is written.
SseCreateReturn(r) ==
  /\ pc[r] = "create"
  /\ request[r].route = "sse"
  /\ \E db \in DbOutcomes :
       IF db.threw
       THEN /\ stream' = [stream EXCEPT ![r] = Ended(@, ErrorFrame(db))]
            /\ UNCHANGED <<launchPlans, planSeq>>
       ELSE LET savedPlan == createLaunchPlan(statement[r].values, planSeq + 1, r)
            IN /\ launchPlans' = Append(launchPlans, savedPlan)
               /\ planSeq' = planSeq + 1
               /\ stream' = [stream EXCEPT ![r] =
                               Ended(@, CompleteFrame(JsonRoundTrip(locals[r].generatedPlan),
                                                      savedPlan.id))]
  /\ Returns(r)
  /\ UNCHANGED <<request, log, calls, origin, thrown, streamFrame>>

NextStream ==
  \E r \in Reqs :
    \/ PostGeneratePlanSse(r)
    \/ KeepAlive(r)
    \/ SseStage1Return(r)
    \/ SseStage2Return(r)
    \/ SseStage3Return(r)
    \/ SseCreateReturn(r)

SpecStream == Init /\ [][NextStream]_vars

-----------------------------------------------------------------------------
(* client/src/pages/share.tsx: the two generate mutations of the page and   *)
(* the step they give the stepper.  The page runs on one thread: a          *)
(* mutationFn up to its await, a callback of a mutation and a callback of   *)
(* a timeout each run without interruption.                                *)

\* Number of generation runs the page starts.
MaxRuns == 2

\* The delays of the timeouts, in milliseconds.
StageTwoDelay == 8000
StageThreeDelay == 20000
HideDelay == 1000

Mutations == {"text", "pdf"}

\* A timeout set in run n: the step it sets, or 0 for the one that hides the
\* stepper.
Timeout(n, ms, step) == [run |-> n, ms |-> ms, step |-> step]

\* Timeout u is due before timeout t whatever the times of the submissions
\* and of the responses: the timeouts of a submission are due in the order
\* of their delays and before the like ones of a later submission, and the
\* timeout set by a response is due before every timeout of a later run.
DueBefore(u, t) ==
  IF u.step = 0 THEN u.run < t.run
  ELSE t.step # 0 /\ u.run <= t.run /\ u.ms <= t.ms

\* What the page never touches.
server == <<generateVars, finalPlan, passes, now, issued, edited, stream, feedbackVars>>

\* mutationFn of either mutation up to its await; the forms are disabled
\* while a mutation is pending.
Submit(m) ==
  /\ mutation = "none"
  /\ runs < MaxRuns
  /\ isGenerating' = TRUE
  /\ currentGenerationStep' = 1
  /\ timers' = timers \cup {Timeout(runs + 1, StageTwoDelay, 2),
                            Timeout(runs + 1, StageThreeDelay, 3)}
  /\ mutation' = m
  /\ runs' = runs + 1
  /\ UNCHANGED server

\* onSuccess with data.success
ResponseSuccess ==
  /\ mutation # "none"
  /\ currentGenerationStep' = 4
  /\ timers' = timers \cup {Timeout(runs, HideDelay, 0)}
  /\ mutation' = "none"
  /\ UNCHANGED <<isGenerating, runs, server>>

\* onError: the response was a failure.
ResponseError ==
  /\ mutation # "none"
  /\ isGenerating' = FALSE
  /\ currentGenerationStep' = 0
  /\ mutation' = "none"
  /\ UNCHANGED <<timers, runs, server>>

\* The callback of a timeout that is due.
TimeoutFires ==
  \E t \in timers :
    /\ \A u \in timers \ {t} : ~DueBefore(u, t)
    /\ timers' = timers \ {t}
    /\ IF t.step = 0
       THEN isGenerating' = FALSE /\ UNCHANGED currentGenerationStep
       ELSE currentGenerationStep' = t.step /\ UNCHANGED isGenerating
    /\ UNCHANGED <<mutation, runs, server>>

NextClient ==
  \/ \E m \in Mutations : Submit(m)
  \/ ResponseSuccess
  \/ ResponseError
  \/ TimeoutFires

SpecClient == Init /\ [][NextClient]_vars

-----------------------------------------------------------------------------
(* The reconciler alone: stage 3 from JSON.parse on, applied to a parsed    *)
(* plan and then again to the plan it returned.                            *)

\* Number of times the reconciler is applied in a run.
MaxPasses == 2

\* The object that holds the keys of `pairs` whose value is not undefined.
Fields(pairs) ==
  LET present == {i \in DOMAIN pairs : pairs[i][2] # Undefined} IN
  Obj([k \in {pairs[i][1] : i \in present} |->
         pairs[CHOOSE i \in present : pairs[i][1] = k][2]])

\* Daily tasks as the service writes them (task, tools, time), with one and
\* with two tools; as the response schema has them, without and with a post
\* draft; one with neither tools nor kpi; one that carries every field under
\* both of its names; one whose task and time are empty strings beside a
\* description and a timeEstimate; and one whose day is a number.
ReconcilerTasks ==
  { ServiceTask(Draft9),
    Obj([day |-> Str("D9"), task |-> Str("Post on Reddit"),
         tools |-> Arr(<<Str("Reddit"), Str("Canva")>>), time |-> Str("2h"),
         kpi |-> Str("1 post live")]),
    Obj([day |-> Str("D9"), description |-> Str("Post on Reddit"),
         timeEstimate |-> Str("2h"), tool |-> Str("Reddit, Canva"),
         kpi |-> Str("1 post live")]),
    Obj([day |-> Str("D9"), description |-> Str("Post on Reddit"),
         timeEstimate |-> Str("2h"), tool |-> Str("Reddit"),
         kpi |-> Str("1 post live"), postDraft |-> Draft9]),
    Obj([day |-> Str("D9"), task |-> Str("Post on Reddit"), time |-> Str("2h")]),
    Obj([day |-> Str("D9"), task |-> Str("Post on Reddit"), description |-> Str("Write a post"),
         time |-> Str("2h"), timeEstimate |-> Str("3h"),
         tools |-> Arr(<<Str("Reddit"), Str("Canva")>>), tool |-> Str("Reddit (free)"),
         kpi |-> Str("1 post live")]),
    Obj([day |-> Str("D9"), task |-> Str(""), description |-> Str("Write a post"),
         time |-> Str(""), timeEstimate |-> Str("3h"), tool |-> Str("Reddit (free)"),
         kpi |-> Str("1 post live")]),
    Obj([day |-> Num(9), task |-> Str("Post on Reddit"), tools |-> Arr(<<Str("Reddit")>>),
         time |-> Str("2h"), kpi |-> Str("1 post live")]) }

\* A list that is absent, empty, or holds one of the given items.
ListsOf(items) == {Undefined, Arr(<<>>)} \cup {Arr(<<x>>) : x \in items}

ReconcilerWeeks ==
  { Fields(<< <<"title", Str("Week 2")>>, <<"goal", Str("Validate")>>,
              <<"dailyTasks", tasks>>, <<"redditTips", tips>> >>) :
      tasks \in ListsOf(ReconcilerTasks),
      tips \in {Undefined, Arr(<<Str("Be helpful")>>)} }

\* The parsed plans the reconciler is given.
ReconcilerPlans ==
  { Fields(<< <<"overview", Str("Reach 10 hotels by day 30")>>,
              <<"weeklyPlan", weeks>>,
              <<"recommendedTools", tools>>,
              <<"kpis", kpis>> >>) :
      weeks \in ListsOf(ReconcilerWeeks),
      tools \in {Undefined, Null,
                 Arr(<<Obj([name |-> Str("Reddit"), purpose |-> Str("Reach"),
                            pricing |-> Str("Free")])>>)},
      kpis \in {Undefined,
                Arr(<<Obj([metric |-> Str("Replies"), target |-> Str("10"),
                           tracking |-> Str("Sheet")])>>)} }

InitReconciler ==
  /\ InitGenerate
  /\ InitStore
  /\ InitStream
  /\ InitClient
  /\ InitFeedback
  /\ finalPlan \in ReconcilerPlans
  /\ passes = <<>>

\* The reconciler runs: on finalPlan first, then on the plan it returned.
Reconcile ==
  /\ Len(passes) < MaxPasses
  /\ passes # <<>> => ~passes[Len(passes)].result.threw
  /\ LET input == IF passes = <<>> THEN finalPlan ELSE passes[Len(passes)].result.value IN
     passes' = Append(passes, [input |-> input, result |-> finalizeWithO3(Json(input))])
  /\ UNCHANGED <<finalPlan, generateVars, now, issued, edited, stream, clientVars,
                 feedbackVars>>

NextReconciler == Reconcile

SpecReconciler == InitReconciler /\ [][NextReconciler]_vars

-----------------------------------------------------------------------------
(* Vocabulary of the properties.                                           *)

StageOrder == <<"stage1", "stage2", "stage3">>

IsPrefix(s, t) == Len(s) <= Len(t) /\ \A i \in 1..Len(s) : s[i] = t[i]

\* The stage calls request r has issued, in order (the summarising call of
\* the document route is no stage).
StageCalls(r) == SelectSeq(calls[r], LAMBDA c : c \in Stages)

\* The progress signals: the start of each stage, and the delivery.
Stage1Start == "Stage 1: Generating initial plan with GPT-4o..."
Stage2Start == "Stage 2: Proofreading and generating social posts with GPT-4.5..."
Stage3Start == "Stage 3: Finalizing with O3 quality assurance..."
Delivered == "Launch plan generation complete!"

\* The progress signals of a complete run.
AllSignals == <<Stage1Start, Stage2Start, Stage3Start, Delivered>>

\* generateLaunchPlan has returned a plan to the route of request r, which
\* holds it in generatedPlan.
PipelineSucceeded(r) == pc[r] = "create" /\ Len(log[r]) = Len(AllSignals)

\* The route of request r has answered with a failure.
FailureResponse(r) == response[r].status = 400 /\ ~response[r].success

RowsOf(r) == {i \in DOMAIN launchPlans : launchPlans[i].request = r}

\* The daily tasks of all weeks of a plan, whatever its shape.
ItemsOf(j) == IF IsArray(j) THEN {j.v[i] : i \in 1..Len(j.v)} ELSE {}
TasksOf(plan) ==
  UNION {ItemsOf(Get(week, "dailyTasks")) : week \in ItemsOf(Get(plan, "weeklyPlan"))}

NonEmptyString(j) == IsString(j) /\ j.v # ""

\* The label "D<n>" of day n.
DayLabel(n) == "D" \o ToString(n)

-----------------------------------------------------------------------------
\* C1: within one run of generateLaunchPlan the stage calls are issued in the
\* order stage 1, stage 2, stage 3; a stage is called only when the stage
\* before it has returned its result, and at most one stage call of the run
\* is in flight at any time.
C1_StagesStrictlySequential ==
  \A r \in Reqs :
    /\ IsPrefix(StageCalls(r), StageOrder)
    /\ Cardinality(inflight[r] \cap Stages) <= 1
    /\ \A i \in 1..Len(StageCalls(r)) :
         StageCalls(r)[i] \in inflight[r] => i = Len(StageCalls(r))
    /\ "stage2" \in inflight[r] => locals[r].rawPlan # Undefined
    /\ "stage3" \in inflight[r] =>
         locals[r].rawPlan # Undefined /\ locals[r].proofreadPlan # Undefined

\* A run that issued all three calls and got its plan, beside a run of
\* another request that waits for stage 2.
C1_Witness ==
  \E r, q \in Reqs :
    /\ StageCalls(r) = StageOrder /\ PipelineSucceeded(r)
    /\ inflight[q] = {"stage2"}

-----------------------------------------------------------------------------
\* C2: when a stage fails (its call throws, or returns no content or content
\* that does not parse), the orchestrator runs no later stage, logs no
\* further progress line and raises to the route an error of the same kind
\* as the stage's, whose message carries the stage's message; the route
\* answers with a failure.
C2_StageFailurePropagates ==
  \A r \in Reqs :
    origin[r].stage \in Stages =>
      /\ pc[r] = "done" /\ inflight[r] = {}
      /\ StageCalls(r)[Len(StageCalls(r))] = origin[r].stage
      /\ Len(log[r]) = Len(StageCalls(r))
      /\ IsPrefix(log[r], AllSignals)
      /\ thrown[r].threw
      /\ thrown[r].name = origin[r].name
      /\ thrown[r].message = "Failed to generate launch plan: " \o origin[r].message
      /\ FailureResponse(r)
      /\ response[r].error = thrown[r].message

\* Stage 1, stage 2 and stage 3 have each failed for some request, so far.
C2_Witness ==
  \E r, q \in Reqs :
    /\ origin[r].stage = "stage3" /\ pc[r] = "done"
    /\ origin[q].stage \in {"stage1", "stage2"} /\ pc[q] = "done"

-----------------------------------------------------------------------------
\* C3: no partial persistence.  A request of either route in which a stage
\* failed has no row in launch_plans; a row exists only for a request whose
\* stage 3 returned a plan, it holds that plan, and a request has at most one.
C3_NoPartialPersistence ==
  /\ \A r \in Reqs : origin[r] # NoError => RowsOf(r) = {}
  /\ \A r \in Reqs : Cardinality(RowsOf(r)) <= 1
  /\ \A i \in DOMAIN launchPlans :
       LET r == launchPlans[i].request IN
       /\ StageCalls(r) = StageOrder
       /\ inflight[r] = {}
       /\ log[r] = AllSignals
       /\ pc[r] = "done" /\ origin[r] = NoError
       /\ response[r].status = 200
       /\ response[r].planId = launchPlans[i].id
       /\ response[r].plan = launchPlans[i].generatedPlan

\* A document request failed at stage 2 and left no row, while the text
\* request beside it stored its plan.
C3_Witness ==
  \E r, q \in Reqs :
    /\ request[r].route = "pdf" /\ origin[r].stage = "stage2" /\ RowsOf(r) = {}
    /\ request[q].route = "text" /\ RowsOf(q) # {}

-----------------------------------------------------------------------------
\* C4: the progress signals of a run that returns a plan are exactly
\* stage-1-start, stage-2-start, stage-3-start, delivered; those of a run
\* that fails at stage 2 are exactly stage-1-start, stage-2-start, followed
\* by the error; at every moment the signals are a prefix of the four.
C4_ProgressSignalOrder ==
  \A r \in Reqs :
    /\ IsPrefix(log[r], AllSignals)
    /\ (pc[r] \in {"create", "done"} /\ StageCalls(r) = StageOrder /\ origin[r] = NoError)
         => log[r] = AllSignals
    /\ origin[r].stage = "stage2" =>
         /\ log[r] = <<Stage1Start, Stage2Start>>
         /\ thrown[r].threw
         /\ FailureResponse(r)

\* One run delivered, another failed at stage 2.
C4_Witness ==
  \E r, q \in Reqs :
    /\ pc[r] = "done" /\ response[r].status = 200 /\ log[r] = AllSignals
    /\ pc[q] = "done" /\ origin[q].stage = "stage2"

-----------------------------------------------------------------------------
\* A body the BusinessInfo invariants reject.
InvalidBody(body) ==
  \/ "businessIdea" \in DOMAIN body /\ Len(body.businessIdea) < 10
  \/ "industry" \notin DOMAIN body
  \/ "targetMarket" \notin DOMAIN body

\* C5: a body of POST /api/generate-plan whose businessIdea has fewer than 10
\* characters, or that lacks industry or targetMarket, is answered with the
\* validation failure; no call to the generative service is issued and no
\* row is created for it.
C5_ValidationBeforeAnyCall ==
  \A r \in Reqs :
    (request[r].route = "text" /\ InvalidBody(request[r].body)) =>
      /\ calls[r] = <<>> /\ inflight[r] = {} /\ log[r] = <<>>
      /\ RowsOf(r) = {}
      /\ pc[r] = "done" /\ FailureResponse(r)

\* A body with an idea of 9 characters and a body without industry were
\* both rejected.
C5_Witness ==
  \E r, q \in Reqs :
    /\ request[r].route = "text" /\ Len(request[r].body.businessIdea) = 9 /\ FailureResponse(r)
    /\ request[q].route = "text" /\ "industry" \notin DOMAIN request[q].body /\ FailureResponse(q)

-----------------------------------------------------------------------------
\* The BusinessInfo invariants.
BusinessInfoInvariant(info) ==
  /\ Len(info.businessIdea) >= 10
  /\ info.industry # ""
  /\ info.targetMarket # ""

\* C6: every BusinessInfo handed to stage 1, on the text route and on the
\* document route, has a businessIdea of at least 10 characters and a
\* non-empty industry and targetMarket.
C6_BusinessInfoValidAtStage1 ==
  \A r \in Reqs : "stage1" \in inflight[r] => BusinessInfoInvariant(locals[r].businessInfo)

-----------------------------------------------------------------------------
\* A task of a FinalPlan with its five fields.
TaskComplete(task) ==
  \A k \in {"day", "description", "timeEstimate", "tool", "kpi"} :
    NonEmptyString(Get(task, k))

\* C7: in the plan a successful run of the pipeline returns, every daily
\* task of every week has a non-empty day, description, timeEstimate, tool
\* and kpi.
C7_EveryTaskComplete ==
  \A r \in Reqs :
    PipelineSucceeded(r) => \A task \in TasksOf(locals[r].generatedPlan) : TaskComplete(task)

-----------------------------------------------------------------------------
\* The FinalPlan shape of shared/schema.ts, launchPlanResponse.
FinalPlanShape(plan) ==
  /\ IsString(Get(plan, "overview"))
  /\ IsArray(Get(plan, "weeklyPlan"))
  /\ \A week \in ItemsOf(Get(plan, "weeklyPlan")) :
       /\ IsString(Get(week, "title"))
       /\ IsString(Get(week, "goal"))
       /\ IsArray(Get(week, "dailyTasks"))
  /\ IsArray(Get(plan, "recommendedTools"))
  /\ IsArray(Get(plan, "kpis"))

\* C8: the generatedPlan of a row of launch_plans has, when the row is
\* created, the FinalPlan shape: overview is a string, weeklyPlan is a list
\* of weeks with title, goal and a dailyTasks list, recommendedTools and
\* kpis are lists.
C8_CreatedPlanHasShape ==
  [][\A i \in DOMAIN launchPlans' :
       i \notin DOMAIN launchPlans => FinalPlanShape(launchPlans'[i].generatedPlan)]_vars

-----------------------------------------------------------------------------
\* C9: when the cleaned draft of stage 2 has a daily task of day "D<n>" and
\* the post drafts of stage 2 hold one keyed to day n, the plan stage 3
\* returns has that task with a postDraft equal to the draft's payload.
C9_MatchingDraftIsEmbedded ==
  \A r \in Reqs :
    PipelineSucceeded(r) =>
      \A task \in TasksOf(locals[r].proofreadPlan), post \in ItemsOf(locals[r].postDrafts) :
        (Get(post, "day").t = "number" /\ Get(task, "day") = Str(DayLabel(Get(post, "day").v)))
          => \E final \in TasksOf(locals[r].generatedPlan) :
               /\ Get(final, "day") = Get(task, "day")
               /\ Get(final, "postDraft") = Get(post, "draft")

-----------------------------------------------------------------------------
\* C10: every postDraft embedded in a task of the plan stage 3 returns is the
\* payload of a post draft of stage 2 keyed to that task's day; a post draft
\* whose day matches no task of the cleaned draft appears in no task.
C10_OnlyMatchingDraftsEmbedded ==
  \A r \in Reqs :
    PipelineSucceeded(r) =>
      \A final \in TasksOf(locals[r].generatedPlan) :
        Get(final, "postDraft") # Undefined =>
          \E post \in ItemsOf(locals[r].postDrafts) :
            /\ Get(post, "day").t = "number"
            /\ Get(final, "day") = Str(DayLabel(Get(post, "day").v))
            /\ Get(final, "postDraft") = Get(post, "draft")
            /\ \E task \in TasksOf(locals[r].proofreadPlan) :
                 Get(task, "day") = Get(final, "day")

-----------------------------------------------------------------------------
\* A task, a week and a plan in the normal form of the reconciler: the keys
\* of the response schema and no others, with a task's five fields strings.
NormalizedTask(task) ==
  /\ task.t = "object"
  /\ DOMAIN task.v \subseteq {"day", "description", "timeEstimate", "tool", "kpi", "postDraft"}
  /\ \A k \in {"day", "description", "timeEstimate", "tool", "kpi"} : IsString(Get(task, k))

NormalizedWeek(week) ==
  /\ week.t = "object"
  /\ DOMAIN week.v \subseteq {"title", "goal", "dailyTasks", "redditTips"}
  /\ IsArray(Get(week, "redditTips"))
  /\ \A task \in ItemsOf(Get(week, "dailyTasks")) : NormalizedTask(task)

NormalizedPlan(plan) ==
  /\ plan.t = "object"
  /\ DOMAIN plan.v \subseteq {"overview", "weeklyPlan", "recommendedTools", "kpis", "nextActions"}
  /\ FinalPlanShape(plan)
  /\ \A week \in ItemsOf(Get(plan, "weeklyPlan")) : NormalizedWeek(week)

\* C11: the reconciler applied to a plan that is already in normal form
\* (tasks with description, timeEstimate, tool as one string, kpi and an
\* optional postDraft) returns a plan whose serialisation is that of its
\* input.
C11_ReconcileIdempotent ==
  \A i \in DOMAIN passes :
    NormalizedPlan(passes[i].input) =>
      /\ ~passes[i].result.threw
      /\ JsonRoundTrip(passes[i].result.value) = JsonRoundTrip(passes[i].input)

\* The reconciler brought a plan written with task, tools and time to
\* normal form, with a post draft in its task, and was applied again to it.
C11_Witness ==
  /\ Len(passes) = 2
  /\ ~NormalizedPlan(passes[1].input)
  /\ NormalizedPlan(passes[2].input)
  /\ ~passes[2].result.threw
  /\ \E task \in TasksOf(passes[2].input) : Get(task, "postDraft") = Draft9

-----------------------------------------------------------------------------
\* A structural field that is absent, or a list.
ListOrAbsent(j) == j = Undefined \/ IsArray(j)

\* C12: when the plan given to the reconciler lacks a structural field (the
\* weeklyPlan list, a week's dailyTasks or redditTips list, the
\* recommendedTools list or the kpis list), the reconciler returns a plan
\* that has the field with a list as its value: never null, never a
\* missing key.
C12_AbsentListsBecomeEmpty ==
  \A i \in DOMAIN passes :
    LET input == passes[i].input IN
    ( /\ ListOrAbsent(Get(input, "weeklyPlan"))
      /\ ListOrAbsent(Get(input, "recommendedTools"))
      /\ ListOrAbsent(Get(input, "kpis"))
      /\ \A week \in ItemsOf(Get(input, "weeklyPlan")) :
           ListOrAbsent(Get(week, "dailyTasks")) /\ ListOrAbsent(Get(week, "redditTips")) )
    => /\ ~passes[i].result.threw
       /\ IsArray(Get(passes[i].result.value, "weeklyPlan"))
       /\ IsArray(Get(passes[i].result.value, "recommendedTools"))
       /\ IsArray(Get(passes[i].result.value, "kpis"))
       /\ \A week \in ItemsOf(Get(passes[i].result.value, "weeklyPlan")) :
            IsArray(Get(week, "dailyTasks")) /\ IsArray(Get(week, "redditTips"))

-----------------------------------------------------------------------------
\* The FinalPlan invariant on the weekly plan: a list of at least one week.
HasWeeks(plan) == IsArray(Get(plan, "weeklyPlan")) /\ Len(Get(plan, "weeklyPlan").v) > 0

\* C13: a result of the reconciler that cannot satisfy the FinalPlan
\* invariants, in particular one whose weeklyPlan is empty, makes stage 3
\* fail: the pipeline returns no such plan to the route and no row holds
\* one.
C13_UnsatisfiablePlanFails ==
  /\ \A r \in Reqs : PipelineSucceeded(r) => HasWeeks(locals[r].generatedPlan)
  /\ \A i \in DOMAIN launchPlans : HasWeeks(launchPlans[i].generatedPlan)

-----------------------------------------------------------------------------
(* Vocabulary of the properties of a stored plan.                          *)

\* In this step the route answers request r, which awaited the database.
Answers(r) == pc[r] \in {"update", "select"} /\ pc'[r] = "done"

\* In this step the edit of request r is applied and answered.
EditApplied(r) ==
  Answers(r) /\ request[r].route = "put" /\ response'[r].status = 200

\* The updatedAt of the row with the given id.
UpdatedAt(table, id) ==
  LET i == CHOOSE j \in DOMAIN table : table[j].id = id IN table[i].updatedAt

-----------------------------------------------------------------------------
\* C14: updatedAt never decreases across the successive successful edits of
\* a plan, taken in the order the store applies them: an edit that follows
\* another leaves updatedAt greater than or equal to the value stored
\* before it.
C14_UpdatedAtNonDecreasing ==
  [][\A r \in Reqs :
       (EditApplied(r) /\ edited[request[r].id] # Undefined) =>
         UpdatedAt(launchPlans', request[r].id) >= UpdatedAt(launchPlans, request[r].id)]_vars

-----------------------------------------------------------------------------
\* C15: every successful edit advances updatedAt: it leaves updatedAt
\* strictly greater than the value stored immediately before it, also when
\* two edits fall within one tick of the clock.
C15_EditAdvancesUpdatedAt ==
  [][\A r \in Reqs :
       EditApplied(r) =>
         UpdatedAt(launchPlans', request[r].id) > UpdatedAt(launchPlans, request[r].id)]_vars

-----------------------------------------------------------------------------
\* The ids of the rows that hold share token t.
HoldersOf(table, t) == {table[i].id : i \in {j \in DOMAIN table : table[j].shareToken = Str(t)}}

\* In this step the route answers the fetch by token of request r, the
\* database having answered.
SharedAnswered(r) ==
  Answers(r) /\ request[r].route = "shared" /\ response'[r].status # 400

\* C16: a plan has a single active share token: after every step a token is
\* held by plan p exactly when it is the token most recently issued for p,
\* and a fetch by token returns the plan for which the token was issued
\* last, and reports not found for a token that was never issued or that
\* a later token of its plan has overwritten.
C16_SingleActiveToken ==
  [][/\ \A t \in Tokens, id \in SharedIds :
          id \in HoldersOf(launchPlans', t) <=> issued'[id].last = Str(t)
     /\ \A r \in Reqs :
          SharedAnswered(r) =>
            LET ids == {id \in SharedIds : issued[id].last = Str(request[r].token)} IN
            IF ids = {} THEN response'[r] = NotFound("Shared plan not found")
            ELSE /\ response'[r].status = 200
                 /\ \E id \in ids : response'[r].plan = getLaunchPlan(id).generatedPlan]_vars

\* A plan was issued two tokens; the fetch by the one was answered not
\* found and the fetch by the other, the last issued, returned the plan.
C16_Witness ==
  \E r, q \in Reqs, id \in SharedIds :
    /\ request[r].route = "shared" /\ response[r] = NotFound("Shared plan not found")
    /\ request[q].route = "shared" /\ response[q].status = 200
    /\ request[r].token # request[q].token
    /\ issued[id].ever = {request[r].token, request[q].token}
    /\ issued[id].last = Str(request[q].token)

-----------------------------------------------------------------------------
\* C17: share tokens are unique across the stored plans: in every state no
\* two plans hold the same token, so a token resolves to at most one plan.
C17_TokensUniqueAcrossPlans ==
  \A t \in Tokens : Cardinality(HoldersOf(launchPlans, t)) <= 1

\* Two plans hold a token each, and one token has been issued for both of
\* them in the course of time.
C17_Witness ==
  /\ Len(launchPlans) = 2
  /\ \A i \in DOMAIN launchPlans : launchPlans[i].shareToken # Null
  /\ \E t \in Tokens : \A i \in DOMAIN launchPlans : t \in issued[launchPlans[i].id].ever

-----------------------------------------------------------------------------
\* The request of r names an id that no row has, or a token no row holds.
Unknown(r) ==
  IF request[r].route = "shared"
  THEN getLaunchPlanByShareToken(request[r].token) = Undefined
  ELSE getLaunchPlan(request[r].id) = Undefined

\* The answer of a route whose statement the database failed.
PersistenceFailure(route) ==
  Failed(CASE route = "get" -> "Failed to retrieve launch plan"
           [] route = "put" -> "Failed to update launch plan"
           [] route = "share" -> "Failed to generate share token"
           [] OTHER -> "Failed to retrieve shared plan")

\* C18: a fetch by id, an edit and a token issue addressed to an id that
\* names no stored plan, and a fetch by a token no plan holds, are answered
\* with the not-found error (or, when the database fails, with the failure)
\* and leave the store as it was: no row is created, no token is stored
\* and no updatedAt changes.
C18_UnknownIsNotFound ==
  [][\A r \in Reqs :
       (Answers(r) /\ Unknown(r)) =>
         /\ \/ response'[r] = NotFound(IF request[r].route = "shared"
                                       THEN "Shared plan not found"
                                       ELSE "Launch plan not found")
            \/ response'[r] = PersistenceFailure(request[r].route)
         /\ launchPlans' = launchPlans
         /\ planSeq' = planSeq
         /\ issued' = issued]_vars

\* The table holds a plan with a token; an edit of an id that names no plan
\* and a fetch by a token no plan holds were both answered not found.
C18_Witness ==
  \E r, q \in Reqs :
    /\ Len(launchPlans) = 1 /\ launchPlans[1].shareToken # Null
    /\ request[r].route = "put" /\ request[r].id \notin {launchPlans[1].id}
    /\ response[r] = NotFound("Launch plan not found")
    /\ request[q].route = "shared" /\ Str(request[q].token) # launchPlans[1].shareToken
    /\ response[q] = NotFound("Shared plan not found")

-----------------------------------------------------------------------------
\* A payload with its title, when it has one, trimmed of the white space
\* around it.
TitleTrimmed(plan) ==
  IF IsString(Get(plan, "title"))
  THEN Obj([plan.v EXCEPT !.title = Str(Trim(@.v))])
  ELSE plan

\* In this step the route answers request r, a fetch by id or by token,
\* with the plan of the row with the given id.
FetchAnswered(r, id) ==
  /\ Answers(r) /\ response'[r].status = 200
  /\ \/ request[r].route = "get" /\ request[r].id = id
     \/ request[r].route = "shared" /\ id \in HoldersOf(launchPlans, request[r].token)

\* C19 as stated: the answer to a successful edit with payload P carries P,
\* and every fetch by id or by share token answered after it carries
\* exactly P, until the next successful edit of the plan.
C19_EditReadsBackPayload ==
  [][\A r \in Reqs :
       /\ EditApplied(r) => response'[r].plan = request[r].body.generatedPlan
       /\ \A id \in PlanIds :
            (FetchAnswered(r, id) /\ edited[id] # Undefined) =>
              response'[r].plan = edited[id]]_vars

\* C19 as amended: the answer to a successful edit with payload P carries P
\* with its title, when it has one, trimmed of surrounding white space, and
\* every fetch by id or by share token answered after it carries exactly
\* that plan, until the next successful edit of the plan.
C19_EditReadsBackTrimmed ==
  [][\A r \in Reqs :
       /\ EditApplied(r) => response'[r].plan = TitleTrimmed(request[r].body.generatedPlan)
       /\ \A id \in PlanIds :
            (FetchAnswered(r, id) /\ edited[id] # Undefined) =>
              response'[r].plan = TitleTrimmed(edited[id])]_vars

\* An edit whose payload has a padded title was answered, and a fetch by
\* share token returned the payload with the title trimmed.
C19_Witness ==
  \E r, q \in Reqs :
    /\ request[r].route = "put" /\ response[r].status = 200
    /\ request[r].body.generatedPlan = TitledPlan
    /\ edited[request[r].id] = TitledPlan
    /\ response[r].plan = TitleTrimmed(TitledPlan)
    /\ response[r].plan # TitledPlan
    /\ request[q].route = "shared" /\ response[q].status = 200
    /\ response[q].plan = TitleTrimmed(TitledPlan)

-----------------------------------------------------------------------------
\* C20: the failure a generate request is answered with is one generic
\* message without upstream detail: two requests with the same route and
\* body whose pipelines failed in the same stage, the errors of the service
\* (or of parsing its answer) differing in their text only, are answered
\* with identical failure responses.
C20_FailureIsGeneric ==
  \A r, q \in Reqs :
    ( /\ pc[r] = "done" /\ pc[q] = "done"
      /\ request[r] = request[q]
      /\ origin[r].stage \in Stages /\ origin[q].stage = origin[r].stage )
    => response[r] = response[q]

-----------------------------------------------------------------------------
\* The number of calls of stage s that request r has issued.
CallsOf(r, s) == Cardinality({i \in DOMAIN calls[r] : calls[r][i] = s})

\* C22: nothing is retried.  In every run of the pipeline each stage issues
\* at most one call to the generative service, a run issues at most three
\* stage calls, and a stage call that failed is the last call of its run:
\* it is not issued again and no call follows it.
C22_NothingRetried ==
  \A r \in Reqs :
    /\ \A s \in Stages : CallsOf(r, s) <= 1
    /\ Len(StageCalls(r)) <= Len(StageOrder)
    /\ origin[r].stage \in Stages =>
         /\ CallsOf(r, origin[r].stage) = 1
         /\ calls[r][Len(calls[r])] = origin[r].stage
         /\ inflight[r] = {}

\* The call of stage 1 of one request was rejected by the service and that of
\* stage 3 of another returned text that does not parse; both requests were
\* answered, having called each stage once.
C22_Witness ==
  \E r, q \in Reqs :
    /\ pc[r] = "done" /\ origin[r].stage = "stage1"
    /\ origin[r].message = "Failed to generate initial plan: 429 Rate limit reached"
    /\ StageCalls(r) = <<"stage1">>
    /\ pc[q] = "done" /\ origin[q].stage = "stage3"
    /\ origin[q].message = "Failed to finalize plan: " \o SyntaxErrorMessage
    /\ StageCalls(q) = StageOrder

-----------------------------------------------------------------------------
\* The route of request r has answered with the plan and its id.
SuccessResponse(r) == response[r].status = 200 /\ response[r].success

\* The BusinessInfo of request r, as its route built it from what the
\* request carried (and, on the document route, from the extracted text
\* the answer reports).
BusinessInfoOf(r) ==
  IF request[r].route = "pdf"
  THEN PdfBusinessInfo(response[r].extractedText, request[r].body)
  ELSE businessInfoSchema(request[r].body).value

\* C23: concurrent generate requests are independent.  However the steps of
\* the requests interleave, a request that was answered with success has
\* exactly one row of its own, the row holds the serialized BusinessInfo and
\* the plan of that request, the planId of the answer is the row's id, no
\* two rows have the same id, and a request that was answered with a
\* failure has none; this holds of each request whatever became of the
\* others.
C23_RequestsIndependent ==
  /\ \A i, j \in DOMAIN launchPlans : launchPlans[i].id = launchPlans[j].id => i = j
  /\ \A r \in Reqs :
       /\ SuccessResponse(r) =>
            /\ Cardinality(RowsOf(r)) = 1
            /\ \A i \in RowsOf(r) :
                 /\ launchPlans[i].id = response[r].planId
                 /\ launchPlans[i].businessInfo = Stringify(BusinessInfoOf(r))
                 /\ launchPlans[i].generatedPlan = response[r].plan
       /\ (pc[r] = "done" /\ ~SuccessResponse(r)) => RowsOf(r) = {}
       /\ pc[r] # "done" => RowsOf(r) = {}

\* A text request and a document request ran side by side with different
\* business information and were given different plans; the one that
\* arrived second had its row inserted first.
C23_Witness ==
  \E r, q \in Reqs :
    /\ r < q
    /\ SuccessResponse(r) /\ request[r].route = "text"
    /\ SuccessResponse(q) /\ request[q].route = "pdf"
    /\ response[r].plan # response[q].plan
    /\ BusinessInfoOf(r) # BusinessInfoOf(q)
    /\ response[q].planId < response[r].planId

-----------------------------------------------------------------------------
\* The daily tasks of a plan the reconciler was given, each with the task
\* the reconciler made of it.
TaskPairs(pass) ==
  LET weeks == Get(pass.input, "weeklyPlan").v
      Tasks(plan, w) == Get(Get(plan, "weeklyPlan").v[w], "dailyTasks").v
  IN UNION { { <<Tasks(pass.input, w)[t], Tasks(pass.result.value, w)[t]>> :
                 t \in 1..Len(Tasks(pass.input, w)) } : w \in 1..Len(weeks) }

\* A field is present when the task has it with a value that is not empty.
Present(j) == j # Undefined /\ j # Null /\ j # Str("")

-----------------------------------------------------------------------------
\* The days of the 30-day plan.
PlanDays == 1..30

\* A day in the label format "D<n>".
IsDayLabel(j) == \E n \in PlanDays : j = Str(DayLabel(n))

\* C25: day-identifier normalization.  Every daily task of the plan the
\* reconciler returns carries its day as a label "D<n>": the label of day n
\* when the upstream task gave the number n, and a label also when upstream
\* gave a formatted label.
C25_DayIsLabel ==
  \A i \in DOMAIN passes :
    ~passes[i].result.threw =>
      \A pair \in TaskPairs(passes[i]) :
        LET day == Get(pair[1], "day") IN
        /\ day.t = "number" => Get(pair[2], "day") = Str(DayLabel(day.v))
        /\ IsDayLabel(day) => IsDayLabel(Get(pair[2], "day"))

-----------------------------------------------------------------------------
\* The handler of request r has returned, having sent one of the two
\* answers: the plan with its id, or a failure.
Terminal(r) ==
  /\ pc[r] = "done"
  /\ \/ SuccessResponse(r) /\ {"plan", "planId"} \subseteq DOMAIN response[r]
     \/ FailureResponse(r) /\ DOMAIN response[r] \cap {"plan", "planId"} = {}

\* C26: run to completion.  Provided every external call and every storage
\* call settles, a generate request whose first stage call has been issued
\* comes to a terminal outcome, which is the success answer with the plan
\* and the planId or a failure answer and never a mixture of the two; no
\* answer is sent before that, and the answer sent is never replaced.
C26_RunsToCompletion ==
  /\ \A r \in Reqs : ("stage1" \in inflight[r]) ~> Terminal(r)
  /\ [](\A r \in Reqs : IF pc[r] = "done" THEN Terminal(r) ELSE response[r] = NoResponse)
  /\ [][\A r \in Reqs : pc[r] = "done" => response'[r] = response[r]]_vars

\* One request ran through the three stages and the insert to the success
\* answer; the other failed at stage 2 and was answered with the failure.
C26_Witness ==
  \E r, q \in Reqs :
    /\ Terminal(r) /\ SuccessResponse(r) /\ StageCalls(r) = StageOrder
    /\ Terminal(q) /\ FailureResponse(q) /\ StageCalls(q) = <<"stage1", "stage2">>

-----------------------------------------------------------------------------
\* In this step the edit or the token issue of request r is applied and
\* answered.
MutationApplied(r) ==
  Answers(r) /\ request[r].route \in {"put", "share"} /\ response'[r].status = 200

\* The columns the mutation of a route writes.
Written(route) ==
  IF route = "put" THEN {"generatedPlan", "updatedAt"} ELSE {"shareToken", "updatedAt"}

\* C27: the frame of the two mutations.  A successful edit of plan p changes
\* of p only generatedPlan and updatedAt, a successful token issue only
\* shareToken and updatedAt; p's id, businessInfo, createdAt and isEditable
\* and every other plan stay as they were and no row comes or goes.  A
\* stored generatedPlan changes in no step but an edit of its plan, and the
\* token a plan held before an edit resolves to the plan after it.
C27_MutationFrame ==
  [][/\ \A r \in Reqs :
          MutationApplied(r) =>
            /\ DOMAIN launchPlans' = DOMAIN launchPlans
            /\ \A i \in DOMAIN launchPlans :
                 IF launchPlans[i].id = request[r].id
                 THEN \A k \in DOMAIN launchPlans[i] \ Written(request[r].route) :
                        launchPlans'[i][k] = launchPlans[i][k]
                 ELSE launchPlans'[i] = launchPlans[i]
            /\ request[r].route = "put" =>
                 \A t \in Tokens :
                   request[r].id \in HoldersOf(launchPlans, t) =>
                     HoldersOf(launchPlans', t) = {request[r].id}
     /\ \A i \in DOMAIN launchPlans :
          launchPlans'[i].generatedPlan # launchPlans[i].generatedPlan =>
            \E r \in Reqs : EditApplied(r) /\ request[r].id = launchPlans[i].id]_vars

\* Two plans hold a token each; both handlers have since edited the first
\* plan, and it holds its token still.
C27_Witness ==
  /\ Len(launchPlans) = 2
  /\ \A i \in DOMAIN launchPlans : launchPlans[i].shareToken # Null
  /\ \A r \in Reqs :
       request[r].route = "put" /\ request[r].id = 1 /\ response[r].status = 200
  /\ getLaunchPlan(1).generatedPlan = TitleTrimmed(TitledPlan)
  /\ getLaunchPlan(2).generatedPlan = JsonRoundTrip(GeneratedPlan)

-----------------------------------------------------------------------------
\* C28: the generation stepper never regresses and never revives.  Within
\* a generation run the step changes only forward through 1, 2, 3, 4, or
\* to 0 by the failure of the run: step 4, once shown, is not replaced by
\* 2 or 3, and the step reset to 0 is not set to 2 or 3, whenever the
\* response comes relative to the timeouts set at submission.
C28_StepperNeverRegresses ==
  [][(runs' = runs /\ currentGenerationStep' # currentGenerationStep) =>
       \/ currentGenerationStep \in 1..3 /\ currentGenerationStep' > currentGenerationStep
       \/ currentGenerationStep' = 0 /\ mutation # "none" /\ mutation' = "none"]_vars

-----------------------------------------------------------------------------
(* Vocabulary of the properties of the votes.                              *)

\* No vote request is being handled.
Quiet == \A r \in Reqs : Free(r)

\* The users whose recorded vote on a feedback item is of the given type.
Voters(table, feedbackId, voteType) ==
  {u \in Users : \E i \in VotesOf(table, feedbackId, u) : table[i].voteType = voteType}

\* The counters of every feedback item are the numbers of its recorded
\* upvotes and downvotes, and no user has two records on an item.
CountsConsistent(feedback, votes) ==
  \A f \in DOMAIN feedback :
    /\ feedback[f].upvotes =
         Cardinality({i \in DOMAIN votes : votes[i].feedbackId = feedback[f].id
                                           /\ votes[i].voteType = "upvote"})
    /\ feedback[f].downvotes =
         Cardinality({i \in DOMAIN votes : votes[i].feedbackId = feedback[f].id
                                           /\ votes[i].voteType = "downvote"})
    /\ feedback[f].upvotes = Cardinality(Voters(votes, feedback[f].id, "upvote"))
    /\ feedback[f].downvotes = Cardinality(Voters(votes, feedback[f].id, "downvote"))
    /\ \A u \in Users : Cardinality(VotesOf(votes, feedback[f].id, u)) <= 1

\* In this step the route answers the vote of request r with success.
VoteAnswered(r) ==
  pc[r] \in {"existingVote", "count"} /\ pc'[r] = "done" /\ response'[r].status = 200

-----------------------------------------------------------------------------
\* C30: vote-count consistency under concurrency.  When vote requests of
\* one user on one feedback item are handled side by side, every
\* interleaving of their statements ends with at most one vote record of
\* the user on the item and with upvotes and downvotes equal to the
\* numbers of recorded upvotes and downvotes.
C30_ConcurrentVotesConsistent ==
  Quiet => CountsConsistent(communityFeedback, feedbackVotes)

-----------------------------------------------------------------------------
(* Vocabulary of the properties of the stream.                              *)

IsProgress(frame) == frame.type = "progress"
IsTerminal(frame) == frame.type \in {"complete", "error"}

\* The messages of the progress frames of a connection, in their order.
Signals(frames) ==
  LET progress == SelectSeq(frames, IsProgress)
  IN [i \in DOMAIN progress |-> progress[i].message]

AllProgressLines ==
  <<ProgressLine("stage1"), ProgressLine("stage2"), ProgressLine("stage3"), ProgressLine("done")>>

\* C21: the streaming generate path.  At every moment the progress frames
\* written to a connection are the progress signals the orchestrator has
\* emitted, in their order, whatever keep-alive frames lie between them; a
\* terminal frame is the last frame of its connection and there is one
\* exactly when the handler has returned: the plan as it was stored, after
\* all four signals, or the error; frames once written stay as they are,
\* and after the terminal frame no frame, keep-alive or other, is written.
C21_StreamDeliversSignals ==
  /\ [](\A r \in Reqs :
          LET frames == stream[r].frames IN
          /\ Signals(frames) = log[r]
          /\ \A i \in DOMAIN frames : IsTerminal(frames[i]) => i = Len(frames)
          /\ stream[r].ended <=> (frames # <<>> /\ IsTerminal(frames[Len(frames)]))
          /\ stream[r].ended <=> pc[r] = "done"
          /\ stream[r].ended =>
               LET last == frames[Len(frames)] IN
               IF last.type = "complete"
               THEN /\ log[r] = AllProgressLines
                    /\ \E i \in DOMAIN launchPlans :
                         /\ launchPlans[i].id = last.planId
                         /\ launchPlans[i].request = r
                         /\ launchPlans[i].generatedPlan = last.plan
               ELSE /\ log[r] # AllProgressLines => origin[r] # NoError \/ log[r] = <<>>
                    /\ origin[r] # NoError => last.error = thrown[r].message)
  /\ [][\A r \in Reqs :
          /\ Len(stream'[r].frames) >= Len(stream[r].frames)
          /\ SubSeq(stream'[r].frames, 1, Len(stream[r].frames)) = stream[r].frames
          /\ stream[r].ended => stream'[r] = stream[r]]_vars

\* One connection carried a keep-alive between the first and the second
\* signal and ended with the plan; the other carried a keep-alive and ended
\* with the error of stage 2.
C21_Witness ==
  \E r, q \in Reqs :
    /\ stream[r].ended /\ stream[r].frames[Len(stream[r].frames)].type = "complete"
    /\ stream[r].frames[2] = KeepAliveFrame
    /\ KeepAlives(stream[r]) = 2
    /\ stream[q].ended /\ stream[q].frames[Len(stream[q].frames)].type = "error"
    /\ origin[q].stage = "stage2"
    /\ Signals(stream[q].frames) = <<ProgressLine("stage1"), ProgressLine("stage2")>>
    /\ KeepAlives(stream[q]) >= 1

====
